---- MODULE Spec2Model ----
(***************************************************************************)
(* Model of the OTA prober's reconciliation layer.                         *)
(*                                                                         *)
(*   Part A  text helpers and update_config_incremental (ConfigMutator),   *)
(*           working on documents given as sequences of lexical atoms      *)
(*           (a run of letters/digits is one atom, every character that    *)
(*           the code inspects - space, ':', '#', '-', quotes, CR, LF -    *)
(*           is an atom of its own).                                       *)
(*   Part B  the processed-fingerprints file (StateStore).                 *)
(*   Part C  process_config_variant (Reconciler) as a step machine over    *)
(*           repeated program runs.                                        *)
(***************************************************************************)
EXTENDS Integers, Sequences, FiniteSets, TLC

\* ------------------------------------------------------------------------
\* Part A.1  characters and Python string helpers
\* ------------------------------------------------------------------------
SP == " "
COLON == ":"
HASH == "#"
DASH == "-"
DQ == "\""
SQ == "'"
LF == "\n"
CR == "\r"

\* str.strip() with no argument strips whitespace
Whitespace == {SP, LF, CR}

SeqMin(S) == CHOOSE x \in S : \A y \in S : x <= y

SeqMax(S) == CHOOSE x \in S : \A y \in S : x >= y

\* number of leading elements of s that lie in W
LeadCount(s, W) ==
    LET bad == {i \in 1..Len(s) : s[i] \notin W}
    IN IF bad = {} THEN Len(s) ELSE SeqMin(bad) - 1

\* number of trailing elements of s that lie in W
TrailCount(s, W) ==
    LET bad == {i \in 1..Len(s) : s[i] \notin W}
    IN IF bad = {} THEN Len(s) ELSE Len(s) - SeqMax(bad)

LStrip(s, W) == SubSeq(s, LeadCount(s, W) + 1, Len(s))

RStrip(s, W) == SubSeq(s, 1, Len(s) - TrailCount(s, W))

Strip(s) == LStrip(RStrip(s, Whitespace), Whitespace)

StartsWith(s, p) == Len(s) >= Len(p) /\ SubSeq(s, 1, Len(p)) = p

EndsWith(s, p) == Len(s) >= Len(p) /\ SubSeq(s, Len(s) - Len(p) + 1, Len(s)) = p

\* str.partition(a): head, whether the separator was found, tail
Partition(s, a) ==
    LET hits == {i \in 1..Len(s) : s[i] = a}
    IN IF hits = {}
       THEN [head |-> s, sep |-> FALSE, tail |-> <<>>]
       ELSE LET i == SeqMin(hits)
            IN [head |-> SubSeq(s, 1, i - 1), sep |-> TRUE,
                tail |-> SubSeq(s, i + 1, Len(s))]

RECURSIVE Join(_)
Join(ls) == IF ls = <<>> THEN <<>> ELSE Head(ls) \o Join(Tail(ls))

RECURSIVE Spaces(_)
Spaces(n) == IF n <= 0 THEN <<>> ELSE <<SP>> \o Spaces(n - 1)

\* str.splitlines(keepends=True)
RECURSIVE SplitLines(_)
SplitLines(t) ==
    IF t = <<>> THEN <<>>
    ELSE LET brk == {i \in 1..Len(t) : t[i] \in {LF, CR}}
         IN IF brk = {} THEN <<t>>
            ELSE LET i == SeqMin(brk)
                     e == IF t[i] = CR /\ i < Len(t) /\ t[i + 1] = LF
                          THEN i + 1 ELSE i
                 IN <<SubSeq(t, 1, e)>> \o SplitLines(SubSeq(t, e + 1, Len(t)))

\* a line with its line ending, CRLF or a lone CR, replaced by LF
UniversalNewline(line) ==
    IF EndsWith(line, <<CR, LF>>) THEN SubSeq(line, 1, Len(line) - 2) \o <<LF>>
    ELSE IF EndsWith(line, <<CR>>) THEN SubSeq(line, 1, Len(line) - 1) \o <<LF>>
    ELSE line

\* Path.read_text(): text mode with universal newlines, CRLF and a lone CR
\* are both delivered as LF
ReadText(b) ==
    LET ls == SplitLines(b)
    IN Join([i \in 1..Len(ls) |-> UniversalNewline(ls[i])])

\* Path.write_text() on a POSIX build: LF is written as LF
WriteText(t) == t

Indent(line) == LeadCount(line, {SP})

\* list.insert(idx, x) with a 1-based position: x becomes element number pos
InsertAt(ls, pos, x) ==
    SubSeq(ls, 1, pos - 1) \o <<x>> \o SubSeq(ls, pos, Len(ls))

\* ------------------------------------------------------------------------
\* Part A.2  rewrite_line and find_incremental_line
\* ------------------------------------------------------------------------
KEY_INCREMENTAL == "incremental"
KEY_VARIANTS == "variants"
KEY_PRODUCT == "product"

RewriteLine(line, value) ==
    LET Quoted(value_core_stripped, q) ==
            StartsWith(value_core_stripped, <<q>>) /\ EndsWith(value_core_stripped, <<q>>)
        QuoteChar(value_core_stripped) ==
            IF Quoted(value_core_stripped, DQ) THEN <<DQ>>
            ELSE IF Quoted(value_core_stripped, SQ) THEN <<SQ>> ELSE <<>>
        NewValue(quote_char) == quote_char \o <<value>> \o quote_char
        ValueSuffix(value_core) ==
            IF value_core # <<>>
            THEN SubSeq(value_core, Len(RStrip(value_core, {SP})) + 1, Len(value_core))
            ELSE <<>>
        Assemble(new_before_comment, sep, comment, newline) ==
            IF sep THEN new_before_comment \o <<HASH>> \o comment \o newline
            ELSE new_before_comment \o newline
        Core(key_part, value_prefix, value_core, pc, newline) ==
            Assemble(key_part \o <<COLON>> \o value_prefix
                        \o NewValue(QuoteChar(Strip(value_core))) \o ValueSuffix(value_core),
                     pc.sep, pc.tail, newline)
        ValuePart(key_part, value_part, k, pc, newline) ==
            Core(key_part, SubSeq(value_part, 1, k),
                 SubSeq(value_part, k + 1, Len(value_part)), pc, newline)
        KeyPart(pk, pc, newline) ==
            IF ~pk.sep THEN line
            ELSE ValuePart(pk.head, pk.tail, LeadCount(pk.tail, {SP}), pc, newline)
        Body(pc, newline) == KeyPart(Partition(pc.head, COLON), pc, newline)
        Newline(newline) ==
            Body(Partition(SubSeq(line, 1, Len(line) - Len(newline)), HASH), newline)
    IN Newline(IF EndsWith(line, <<CR, LF>>) THEN <<CR, LF>>
               ELSE IF EndsWith(line, <<LF>>) THEN <<LF>> ELSE <<>>)

\* positions are 1-based, 0 stands for None
RECURSIVE FindIncrementalLine(_, _, _)
FindIncrementalLine(lines, idx, end_indent) ==
    LET Scan(stripped, indent) ==
            IF indent <= end_indent /\ StartsWith(stripped, <<DASH, SP>>) THEN 0
            ELSE IF indent <= end_indent /\ stripped = <<>>
                 THEN FindIncrementalLine(lines, idx + 1, end_indent)
            ELSE IF indent <= end_indent /\ stripped # <<>>
                    /\ ~StartsWith(stripped, <<DASH, SP>>)
                    /\ ~StartsWith(stripped, <<HASH>>) THEN 0
            ELSE IF StartsWith(stripped, <<KEY_INCREMENTAL, COLON>>) THEN idx
            ELSE FindIncrementalLine(lines, idx + 1, end_indent)
    IN IF idx > Len(lines) THEN 0 ELSE Scan(Strip(lines[idx]), Indent(lines[idx]))

\* ------------------------------------------------------------------------
\* Part A.3  yaml.safe_load on the block-style documents of the model:
\* top-level "key: scalar" lines, one "variants:" key holding a block
\* sequence of mappings, comments and blank lines.  A line of any other
\* shape makes the load fail (data = None).
\* ------------------------------------------------------------------------
Special == {SP, COLON, HASH, DASH, DQ, SQ, LF, CR}

\* plain scalars that YAML resolves to int instead of str
NumericAtoms == {"7", "8"}

Absent == [t |-> "absent", v |-> ""]

NoneVal == [t |-> "none", v |-> ""]

StrVal(a) == [t |-> "str", v |-> a]

PlainVal(a) == IF a \in NumericAtoms THEN [t |-> "int", v |-> a] ELSE StrVal(a)

BadLine == [kind |-> "bad", ind |-> 0, item |-> FALSE, key |-> "", val |-> NoneVal]

ParseLine(line) ==
    LET Blank == [kind |-> "blank", ind |-> 0, item |-> FALSE, key |-> "", val |-> NoneVal]
        Kv(ind, item, key, val) ==
            [kind |-> "kv", ind |-> ind, item |-> item, key |-> key, val |-> val]
        Scalar(ind, item, key, scalar) ==
            IF Len(scalar) = 1 /\ scalar[1] \notin Special
            THEN Kv(ind, item, key, PlainVal(scalar[1]))
            ELSE IF Len(scalar) = 3 /\ scalar[1] \in {DQ, SQ} /\ scalar[3] = scalar[1]
                    /\ scalar[2] \notin Special
                 THEN Kv(ind, item, key, StrVal(scalar[2]))
            ELSE BadLine
        After(ind, item, key, after) ==
            IF after = <<>> THEN Kv(ind, item, key, NoneVal)
            ELSE IF after[1] # SP THEN BadLine
            ELSE Scalar(ind, item, key, LStrip(after, {SP}))
        KeyValue(ind, item, kv) ==
            IF Len(kv) < 2 \/ kv[1] \in Special \/ kv[2] # COLON THEN BadLine
            ELSE After(ind, item, kv[1], SubSeq(kv, 3, Len(kv)))
        Rest(ind, rest, item) ==
            KeyValue(ind, item, IF item THEN SubSeq(rest, 3, Len(rest)) ELSE rest)
        Content(content) ==
            IF content = <<>> THEN Blank
            ELSE Rest(Indent(content), LStrip(content, {SP}),
                      StartsWith(LStrip(content, {SP}), <<DASH, SP>>))
        \* '#' glued to the preceding token is not a comment
        Uncommented(pc) ==
            IF pc.sep /\ Len(pc.head) > 0 /\ pc.head[Len(pc.head)] # SP THEN BadLine
            ELSE Content(RStrip(pc.head, {SP}))
    IN Uncommented(Partition(RStrip(line, {LF, CR}), HASH))

EmptyEntry == [product |-> Absent, incremental |-> Absent]

SetKey(entry, key, val) ==
    IF key = KEY_PRODUCT THEN [entry EXCEPT !.product = val]
    ELSE IF key = KEY_INCREMENTAL THEN [entry EXCEPT !.incremental = val]
    ELSE entry

YamlStart == [ok |-> TRUE, keys |-> 0, mode |-> "top", itemIndent |-> -1,
              product |-> Absent, incremental |-> Absent, variants |-> <<>>]

YamlStep(st, line) ==
    LET Step(p, n) ==
       IF ~st.ok \/ p.kind = "blank" THEN st
       ELSE IF p.kind = "bad" THEN [st EXCEPT !.ok = FALSE]
       ELSE IF ~p.item /\ p.ind = 0
            THEN IF p.key = KEY_VARIANTS
                 THEN IF p.val = NoneVal
                      THEN [st EXCEPT !.keys = @ + 1, !.mode = "variants",
                                      !.itemIndent = -1, !.variants = <<>>]
                      ELSE [st EXCEPT !.keys = @ + 1, !.mode = "top", !.variants = <<>>]
                 ELSE [st EXCEPT !.keys = @ + 1, !.mode = "top",
                                 !.product = IF p.key = KEY_PRODUCT THEN p.val ELSE @,
                                 !.incremental = IF p.key = KEY_INCREMENTAL THEN p.val ELSE @]
       ELSE IF st.mode # "variants" THEN [st EXCEPT !.ok = FALSE]
       ELSE IF p.item
            THEN IF st.itemIndent = -1 \/ st.itemIndent = p.ind
                 THEN [st EXCEPT !.itemIndent = p.ind,
                                 !.variants = Append(@, SetKey(EmptyEntry, p.key, p.val))]
                 ELSE [st EXCEPT !.ok = FALSE]
       ELSE IF n > 0 /\ p.ind = st.itemIndent + 2
            THEN [st EXCEPT !.variants[n] = SetKey(@, p.key, p.val)]
       ELSE [st EXCEPT !.ok = FALSE]
    IN Step(ParseLine(line), Len(st.variants))

RECURSIVE YamlFold(_, _)
YamlFold(st, lines) ==
    IF lines = <<>> THEN st ELSE YamlFold(YamlStep(st, Head(lines)), Tail(lines))

\* isDict: isinstance(data, dict); isList: isinstance(data.get("variants"), list)
YamlSafeLoad(raw_text) ==
    LET Data(st, isDict) ==
            [isDict |-> isDict,
             isList |-> isDict /\ st.variants # <<>>,
             product |-> st.product,
             incremental |-> st.incremental,
             variants |-> st.variants]
        Loaded(st) == Data(st, st.ok /\ st.keys > 0)
    IN Loaded(YamlFold(YamlStart, SplitLines(raw_text)))

\* ------------------------------------------------------------------------
\* Part A.4  update_config_incremental
\*   file  the bytes of the config document on disk
\*   cfg   [variant_index, product]; variant_index is 0-based, -1 is None
\*   io    what the file system does to the calls: "ok", "read_fail" (read_text
\*         raises), "open_fail" (write_text raises before truncating) or
\*         "write_fail" (write_text raises after open() truncated the file)
\* The result is [ret, file, wrote]: the return value, the bytes on disk
\* afterwards, and whether write_text was called.
\* ------------------------------------------------------------------------
IoOutcomes == {"ok", "read_fail", "open_fail", "write_fail"}

EffProduct(data, entry) ==
    IF entry.product = Absent
    THEN (IF data.product = Absent THEN NoneVal ELSE data.product)
    ELSE entry.product

\* the variant the code settles on, 0-based, -1 for None
MatchIdx(data, cfg) ==
    LET n == Len(data.variants)
        hits == {i \in 0..(n - 1) : EffProduct(data, data.variants[i + 1]) = StrVal(cfg.product)}
    IN IF cfg.variant_index >= 0 /\ cfg.variant_index < n
          /\ EffProduct(data, data.variants[cfg.variant_index + 1]) = StrVal(cfg.product)
       THEN cfg.variant_index
       ELSE IF hits = {} THEN -1 ELSE SeqMin(hits)

\* first line whose lstrip() starts with "variants:", 0 for None
VariantsLineIdx(lines) ==
    LET hits == {i \in 1..Len(lines) :
                    StartsWith(LStrip(lines[i], Whitespace), <<KEY_VARIANTS, COLON>>)}
    IN IF hits = {} THEN 0 ELSE SeqMin(hits)

\* the scan for the header line of variant number match_idx; yields the
\* position of that header line, 0 when the loop ends without finding it
RECURSIVE LocateVariant(_, _, _, _, _)
LocateVariant(lines, i, variants_indent, variant_counter, match_idx) ==
    LET Scan(stripped, indent) ==
            IF indent <= variants_indent /\ stripped # <<>> THEN 0
            ELSE IF StartsWith(stripped, <<DASH, SP>>)
                 THEN IF variant_counter + 1 = match_idx THEN i
                      ELSE LocateVariant(lines, i + 1, variants_indent,
                                         variant_counter + 1, match_idx)
            ELSE LocateVariant(lines, i + 1, variants_indent, variant_counter, match_idx)
    IN IF i > Len(lines) THEN 0 ELSE Scan(Strip(lines[i]), Indent(lines[i]))

\* the top-level scan of a document without a variants list
RECURSIVE TopIncrementalLine(_, _)
TopIncrementalLine(lines, i) ==
    LET Scan(stripped) ==
            IF StartsWith(stripped, <<KEY_VARIANTS, COLON>>) THEN 0
            ELSE IF StartsWith(stripped, <<KEY_INCREMENTAL, COLON>>) THEN i
            ELSE TopIncrementalLine(lines, i + 1)
    IN IF i > Len(lines) THEN 0 ELSE Scan(Strip(lines[i]))

InsertLine(indent, new_incremental) ==
    Spaces(indent + 2) \o <<KEY_INCREMENTAL, COLON, SP, DQ, new_incremental, DQ, LF>>

\* the tail of the function: compare, write, report
FinishUpdate(file, raw_text, lines, io) ==
    LET Finish(new_text) ==
            IF new_text = raw_text THEN [ret |-> TRUE, file |-> file, wrote |-> FALSE]
            ELSE IF io = "open_fail" THEN [ret |-> FALSE, file |-> file, wrote |-> TRUE]
            ELSE IF io = "write_fail" THEN [ret |-> FALSE, file |-> <<>>, wrote |-> TRUE]
            ELSE [ret |-> TRUE, file |-> WriteText(new_text), wrote |-> TRUE]
    IN Finish(Join(lines))

UpdateConfigIncremental(file, cfg, new_incremental, io) ==
    LET fail == [ret |-> FALSE, file |-> file, wrote |-> FALSE]
        Rewrite(raw_text, lines, inc_idx) ==
            FinishUpdate(file, raw_text,
                         [lines EXCEPT ![inc_idx] = RewriteLine(@, new_incremental)], io)
        Insert(raw_text, lines, variant_start_idx, target_variant_indent) ==
            FinishUpdate(file, raw_text,
                         InsertAt(lines, variant_start_idx,
                                  InsertLine(target_variant_indent, new_incremental)),
                         io)
        InBlock(raw_text, lines, header, inc_idx) ==
            IF inc_idx = 0 THEN Insert(raw_text, lines, header + 1, Indent(lines[header]))
            ELSE Rewrite(raw_text, lines, inc_idx)
        Located(raw_text, lines, header) ==
            IF header = 0 THEN fail
            ELSE InBlock(raw_text, lines, header,
                         FindIncrementalLine(lines, header + 1, Indent(lines[header])))
        Variants(raw_text, lines, data, match_idx, variants_line_idx) ==
            IF match_idx = -1 THEN fail
            ELSE IF data.variants[match_idx + 1].incremental = StrVal(new_incremental)
                 THEN [ret |-> TRUE, file |-> file, wrote |-> FALSE]
            ELSE IF variants_line_idx = 0 THEN fail
            ELSE Located(raw_text, lines,
                         LocateVariant(lines, variants_line_idx + 1,
                                       Indent(lines[variants_line_idx]), -1, match_idx))
        TopLevel(raw_text, lines, inc_idx) ==
            IF inc_idx = 0 THEN fail ELSE Rewrite(raw_text, lines, inc_idx)
        Loaded(raw_text, lines, data) ==
            IF data.isDict /\ data.isList
            THEN Variants(raw_text, lines, data, MatchIdx(data, cfg), VariantsLineIdx(lines))
            ELSE TopLevel(raw_text, lines, TopIncrementalLine(lines, 1))
        Read(raw_text) == Loaded(raw_text, SplitLines(raw_text), YamlSafeLoad(raw_text))
    IN IF new_incremental = "" THEN fail
       ELSE IF io = "read_fail" THEN fail
       ELSE Read(ReadText(file))

\* ------------------------------------------------------------------------
\* Part A.5  the config documents the model is run on.  A document is built
\* from a shape:
\*   entries     one record per variant, [product, hasInc]; product "" means
\*               the entry names no product and inherits the top-level one
\*   rot         rotates the quote style (double, single, none) over the
\*               incremental lines, so that one document mixes the styles
\*   cmt         incremental lines carry a trailing " # note" comment
\*   crlf        lines end in CRLF instead of LF
\*   finalNL     the last line has a line terminator
\*   itemIndent  indentation of the "- " markers under "variants:"
\*   topInc      a top-level incremental line exists
\* ------------------------------------------------------------------------
MaxVariants == 3

TOP_PRODUCT == "P1"

OLD_INCREMENTAL == "7"

QuoteStyles == <<<<DQ>>, <<SQ>>, <<>>>>

QuoteOf(shape, k) == QuoteStyles[((k + shape.rot) % 3) + 1]

IncBody(shape, k, ind) ==
    Spaces(ind) \o <<KEY_INCREMENTAL, COLON, SP>>
    \o QuoteOf(shape, k) \o <<OLD_INCREMENTAL>> \o QuoteOf(shape, k)
    \o (IF shape.cmt THEN <<SP, HASH, SP, "note">> ELSE <<>>)

EntryBodies(shape, k) ==
    LET e == shape.entries[k]
        header == Spaces(shape.itemIndent)
                  \o (IF e.product = "" THEN <<DASH, SP, "model", COLON, SP, "M">>
                      ELSE <<DASH, SP, KEY_PRODUCT, COLON, SP, e.product>>)
    IN <<header>> \o (IF e.hasInc THEN <<IncBody(shape, k, shape.itemIndent + 2)>> ELSE <<>>)

RECURSIVE AllEntryBodies(_, _)
AllEntryBodies(shape, k) ==
    IF k > Len(shape.entries) THEN <<>>
    ELSE EntryBodies(shape, k) \o AllEntryBodies(shape, k + 1)

DocBodies(shape) ==
    << <<HASH, SP, "device">>, <<"model", COLON, SP, "M">>,
       <<KEY_PRODUCT, COLON, SP, TOP_PRODUCT>> >>
    \o (IF shape.topInc THEN <<IncBody(shape, 0, 0)>> ELSE <<>>)
    \o (IF Len(shape.entries) > 0
        THEN << <<KEY_VARIANTS, COLON>>, <<>> >> \o AllEntryBodies(shape, 1)
        ELSE <<>>)

RECURSIVE Terminate(_, _, _)
Terminate(bodies, term, finalNL) ==
    IF bodies = <<>> THEN <<>>
    ELSE IF Len(bodies) = 1 THEN Head(bodies) \o (IF finalNL THEN term ELSE <<>>)
    ELSE Head(bodies) \o term \o Terminate(Tail(bodies), term, finalNL)

DocOf(shape) ==
    Terminate(DocBodies(shape), IF shape.crlf THEN <<CR, LF>> ELSE <<LF>>, shape.finalNL)

\* product of entry k under a product pattern: every entry inherits the
\* top-level product, every entry names a foreign product, or the first entry
\* is foreign and the others name the top-level product explicitly
ProductPatterns == {"inherit", "foreign", "shifted"}

PatternProduct(pp, k) ==
    IF pp = "inherit" THEN ""
    ELSE IF pp = "foreign" \/ k = 1 THEN "P2"
    ELSE TOP_PRODUCT

EntriesOf(n, pp, has) == [k \in 1..n |-> [product |-> PatternProduct(pp, k), hasInc |-> has[k]]]

EntryLists ==
    UNION {{EntriesOf(n, pp, has) : pp \in ProductPatterns, has \in [1..n -> BOOLEAN]} :
           n \in 0..MaxVariants}

\* LF documents in every quote style, LF documents without comments, CRLF
\* documents, and documents whose "- " markers are not indented under
\* "variants:"
Shapes ==
    [entries : EntryLists, rot : 0..2, cmt : {TRUE}, crlf : {FALSE},
     finalNL : {TRUE}, itemIndent : {2}, topInc : BOOLEAN]
    \cup
    [entries : EntryLists, rot : {0}, cmt : BOOLEAN, crlf : {FALSE},
     finalNL : BOOLEAN, itemIndent : {2}, topInc : {TRUE}]
    \cup
    [entries : EntryLists, rot : 0..2, cmt : {TRUE}, crlf : {TRUE},
     finalNL : {TRUE}, itemIndent : {2}, topInc : {TRUE}]
    \cup
    [entries : EntryLists, rot : {0}, cmt : {FALSE}, crlf : {FALSE},
     finalNL : BOOLEAN, itemIndent : {0}, topInc : BOOLEAN]

\* ------------------------------------------------------------------------
\* Part B  the processed-fingerprints file
\* A fingerprint is the string OEM/PRODUCT/DEVICE:PLATFORM/TAG/INC:user/release-keys,
\* kept as its sequence of atoms; the file is the sequence of atoms on disk.
\* ------------------------------------------------------------------------
SLASH == "/"

Fingerprint(product, incremental) ==
    <<"OEM", SLASH, product, SLASH, "DEV", COLON, "14", SLASH, "TAG", SLASH,
      incremental, COLON, "user", SLASH, "release-keys">>

\* str.split(sep), as the sequence of pieces
RECURSIVE Split(_, _)
Split(s, sep) ==
    LET p == Partition(s, sep)
    IN IF ~p.sep THEN <<s>> ELSE <<p.head>> \o Split(p.tail, sep)

\* extract_incremental_from_fingerprint; "" stands for None
ExtractIncrementalFromFingerprint(fp) ==
    IF fp = <<>> THEN ""
    ELSE LET c == Partition(fp, COLON)
             parts == Split(c.tail, SLASH)
             segment == IF Len(parts) >= 3 THEN Partition(parts[3], COLON).head ELSE <<>>
         IN IF ~c.sep \/ Len(parts) < 3 \/ segment = <<>> THEN ""
            ELSE segment[1]

\* load_processed_fingerprints; readOk = FALSE is the except branch
LoadProcessedFingerprints(file, readOk) ==
    IF ~readOk THEN {}
    ELSE LET lines == SplitLines(ReadText(file))
         IN {Strip(lines[i]) : i \in 1..Len(lines)} \ {<<>>}

\* save_processed_fingerprint.  io is "ok", "open_fail" (open("a") raises) or
\* "partial" (the write raises after cut atoms of the line reached the disk)
SaveOutcomes == {"ok", "open_fail", "partial"}

\* save_processed_fingerprint opening the file with "w" instead of "a"
SaveProcessedFingerprint_Truncating(file, fingerprint, io, cut) ==
    IF io = "ok" THEN fingerprint \o <<LF>>
    ELSE IF io = "partial" THEN SubSeq(fingerprint \o <<LF>>, 1, cut)
    ELSE file

SaveProcessedFingerprint(file, fingerprint, io, cut) ==
    IF io = "ok" THEN file \o fingerprint \o <<LF>>
    ELSE IF io = "partial" THEN file \o SubSeq(fingerprint \o <<LF>>, 1, cut)
    ELSE file

\* ------------------------------------------------------------------------
\* Part C.1  Config.from_yaml: the list of Config objects of a document, or
\* an error (the ValueError / FileNotFoundError caught by process_config)
\* ------------------------------------------------------------------------
Merged(data, entry) ==
    [product |-> IF entry.product = Absent THEN data.product ELSE entry.product,
     incremental |-> IF entry.incremental = Absent THEN data.incremental
                     ELSE entry.incremental]

FromYaml(file) ==
    LET data == YamlSafeLoad(ReadText(file))
        n == Len(data.variants)
        merged == [i \in 1..n |-> Merged(data, data.variants[i])]
    IN IF ~data.isDict THEN [error |-> TRUE, configs |-> <<>>]
       ELSE IF ~data.isList
            THEN IF data.product = Absent \/ data.incremental = Absent
                 THEN [error |-> TRUE, configs |-> <<>>]
                 ELSE [error |-> FALSE,
                       configs |-> <<[variant_index |-> -1, product |-> data.product.v,
                                      incremental |-> data.incremental.v]>>]
       ELSE IF \E i \in 1..n : merged[i].product = Absent \/ merged[i].incremental = Absent
            THEN [error |-> TRUE, configs |-> <<>>]
       ELSE [error |-> FALSE,
             configs |-> [i \in 1..n |-> [variant_index |-> i - 1,
                                          product |-> merged[i].product.v,
                                          incremental |-> merged[i].incremental.v]]]

\* ------------------------------------------------------------------------
\* State
\*   fpFile    bytes of processed_fingerprints.txt
\*   cfgFile   bytes of the config document
\*   m         the ConfigMutator harness: the document shape, the Config and
\*             value passed to update_config_incremental, and what the last
\*             call did
\*   releases  titles of the releases that exist on GitHub
\*   runs      number of program runs started
\*   args      the argparse namespace of the current run
\*   tg        whether process_config_variant built a TgNotify
\*   pc        position of the current run inside process_config_variant
\*   configs   the Config list process_config loaded, cur the one in work
\*   exit_code exit_code of process_config
\*   loc       the locals of process_config_variant
\*   inv       what the current invocation of process_config_variant has done
\*   hist      what all runs together have done; hist.results lists, for the
\*             current run, the targets that have ended ([path, variant,
\*             result], variant 0 for a config that did not load), hist.path
\*             is the index of the config path in work, hist.aborted tells
\*             that an exception ended the run
\* ------------------------------------------------------------------------
VARIABLES fpFile, cfgFile, m, releases, runs, args, tg, pc, configs, cur,
          exit_code, loc, inv, hist

vars == <<fpFile, cfgFile, m, releases, runs, args, tg, pc, configs, cur,
          exit_code, loc, inv, hist>>

\* the variables of the reconciler, and the mutator harness
recVars == <<fpFile, releases, runs, args, tg, pc, configs, cur, exit_code, loc, inv, hist>>

\* ------------------------------------------------------------------------
\* Part C.2  process_config_variant, process_config and main
\* ------------------------------------------------------------------------
MaxRuns == 2

F8 == Fingerprint("P1", "8")

F9 == Fingerprint("P1", "9")

\* a fingerprint without the ':' that extract_incremental_from_fingerprint needs
FJunk == <<"junk">>

TargetFps == {F8, F9, FJunk}

\* the update_title the check-in reports for the update that leads to fp
TitleOf(fp) == IF fp = F8 THEN "T8" ELSE IF fp = F9 THEN "T9" ELSE "TJ"

\* the values of -i/--incremental: not given, or a build the document does
\* not name
Overrides == {"", "6"}

ArgSets == [dry_run : BOOLEAN, skip_telegram : BOOLEAN, register_fingerprint : BOOLEAN,
            force_notify : BOOLEAN, force_release : BOOLEAN, debug : BOOLEAN,
            incremental : Overrides]

NoArgs == [dry_run |-> FALSE, skip_telegram |-> FALSE, register_fingerprint |-> FALSE,
           force_notify |-> FALSE, force_release |-> FALSE, debug |-> FALSE,
           incremental |-> ""]

NoLoc == [target_fp |-> <<>>, is_new_update |-> FALSE, target_incremental |-> "",
          config_updated |-> FALSE, fingerprint_saved |-> FALSE, result |-> 0]

NoInv == [fpFile0 |-> <<>>, cfgFile0 |-> <<>>, sent |-> "none", saved |-> FALSE,
          cfgCalled |-> FALSE, released |-> FALSE, committed |-> FALSE,
          debugWrote |-> FALSE, wouldSave |-> FALSE,
          check |-> [kind |-> "none", url |-> FALSE, title |-> FALSE, size |-> FALSE]]

NoHist == [sendsOk |-> [fp \in TargetFps |-> 0], relCreated |-> [fp \in TargetFps |-> 0],
           failedPending |-> {}, flagRegistered |-> {}, faulted |-> FALSE,
           forceUsed |-> FALSE, path |-> 1, results |-> <<>>, aborted |-> FALSE]

RecIdle ==
    /\ releases = {}
    /\ runs = 0
    /\ args = NoArgs
    /\ tg = FALSE
    /\ pc = "idle"
    /\ configs = <<>>
    /\ cur = 0
    /\ exit_code = 0
    /\ loc = NoLoc
    /\ inv = NoInv
    /\ hist = NoHist

\* the value handed in: the one the document already holds, a new one, and
\* (the document is not looked at then) the empty string
NewIncrementals(shape) ==
    IF Len(shape.entries) = 0 THEN {"", OLD_INCREMENTAL, "8"} ELSE {OLD_INCREMENTAL, "8"}

TargetsOf(shape) ==
    IF Len(shape.entries) = 0 THEN {[variant_index |-> -1, product |-> TOP_PRODUCT]}
    ELSE [variant_index : 0..(Len(shape.entries) - 1), product : {TOP_PRODUCT}]

InitMutator ==
    /\ fpFile = <<>>
    /\ RecIdle
    /\ \E shape \in Shapes : \E cfg \in TargetsOf(shape) : \E v \in NewIncrementals(shape) :
         \* only documents that Config.from_yaml accepts
         /\ ~FromYaml(DocOf(shape)).error
         /\ cfgFile = DocOf(shape)
         /\ m = [shape |-> shape, cfg |-> cfg, new |-> v, calls |-> 0, io |-> "ok",
                 ret |-> FALSE, wrote |-> FALSE, before |-> <<>>,
                 ret1 |-> FALSE, io1 |-> "ok"]

\* one call update_config_incremental(config_path, cfg, new_incremental)
CallUpdate(io) ==
    LET r == UpdateConfigIncremental(cfgFile, m.cfg, m.new, io)
    IN /\ cfgFile' = r.file
       /\ m' = [m EXCEPT !.calls = @ + 1, !.io = io, !.ret = r.ret, !.wrote = r.wrote,
                         !.before = cfgFile,
                         !.ret1 = IF m.calls = 0 THEN r.ret ELSE @,
                         !.io1 = IF m.calls = 0 THEN io ELSE @]
       /\ UNCHANGED recVars

FirstCall == m.calls = 0 /\ \E io \in IoOutcomes : CallUpdate(io)

\* the repeated call with the same value, made after a call that reported success
SecondCall == m.calls = 1 /\ m.ret /\ CallUpdate("ok")

NextMutator == FirstCall \/ SecondCall

SpecMutator == InitMutator /\ [][NextMutator]_vars

\* ------------------------------------------------------------------------
\* Properties of update_config_incremental (checked under SpecMutator)
\* ------------------------------------------------------------------------
\* the variant of the shape that the target's product selects, 0-based, -1 if none
ShapeMatches(k) == m.shape.entries[k + 1].product \in {"", m.cfg.product}

MatchedEntry ==
    LET n == Len(m.shape.entries)
        hits == {k \in 0..(n - 1) : ShapeMatches(k)}
    IN IF n = 0 THEN -1
       ELSE IF ShapeMatches(m.cfg.variant_index) THEN m.cfg.variant_index
       ELSE IF hits = {} THEN -1 ELSE SeqMin(hits)

\* the document has an incremental line for the target
TargetLineExists ==
    IF Len(m.shape.entries) = 0 THEN m.shape.topInc
    ELSE MatchedEntry >= 0 /\ m.shape.entries[MatchedEntry + 1].hasInc

\* the matched variant already holds the value as a string, which the call
\* reports before it looks for the variant block in the text
AlreadyCurrent ==
    /\ MatchedEntry >= 0
    /\ m.shape.entries[MatchedEntry + 1].hasInc
    /\ QuoteOf(m.shape, MatchedEntry + 1) # <<>>
    /\ m.new = OLD_INCREMENTAL

\* the target cannot be located in the document: no top-level incremental
\* line, no variant of the target's product, or a variant block that the
\* line scan does not find
Unlocatable ==
    IF Len(m.shape.entries) = 0 THEN ~m.shape.topInc
    ELSE MatchedEntry = -1 \/ (m.shape.itemIndent = 0 /\ ~AlreadyCurrent)

\* line a is line b with one atom, the value, replaced by v
OnlyValueChanged(b, a, v) ==
    /\ Len(a) = Len(b)
    /\ \E p \in 1..Len(b) :
         /\ a[p] = v
         /\ b[p] = OLD_INCREMENTAL
         /\ \A q \in 1..Len(b) : q # p => a[q] = b[q]

\* the bytes on disk differ from the bytes before the call in the value token
\* of exactly one line
ExactlyOneValueToken(before, after, v) ==
    LET b == SplitLines(before)
        a == SplitLines(after)
    IN /\ Len(a) = Len(b)
       /\ \E i \in 1..Len(b) :
            /\ OnlyValueChanged(b[i], a[i], v)
            /\ \A j \in 1..Len(b) : j # i => a[j] = b[j]

\* C7: a call that rewrites the located incremental line changes exactly the
\* value token of that line; every other line, and on that line the key, the
\* whitespace, the comment, the quote style and the line terminator, is
\* byte-identical before and after.
C7_OnlyValueTokenChanges ==
    (m.calls = 1 /\ m.ret /\ m.wrote /\ TargetLineExists)
        => ExactlyOneValueToken(m.before, cfgFile, m.new)

\* C8: a second call with the same value, after a first call that returned
\* True, returns True, writes nothing and leaves the document as the first
\* call left it.
C8_SecondCallIsNoOp ==
    m.calls = 2 => (m.ret /\ ~m.wrote /\ cfgFile = m.before)

\* C9: an unlocatable target gives False without any write, and a return of
\* False always leaves the file byte-identical.
C9_FalseLeavesFileUntouched ==
    m.calls = 1 =>
        /\ (Unlocatable /\ m.io # "read_fail" /\ m.new # "" => ~m.ret /\ ~m.wrote)
        /\ (~m.ret => cfgFile = m.before)

\* C29: when the matched variant has no incremental line, a successful call
\* inserts one line, incremental: "value" indented two spaces deeper than the
\* entry's "- ", right after the entry's header line, and changes no other
\* line; the document then parses to the same variants, with the new value as
\* the incremental of the matched one.
C29_InsertAfterHeader ==
    (/\ m.calls = 1 /\ m.ret /\ m.wrote
     /\ MatchedEntry >= 0
     /\ ~m.shape.entries[MatchedEntry + 1].hasInc) =>
        LET IsHeader(line) == StartsWith(LStrip(line, {SP}), <<DASH, SP>>)
            NewLine == Spaces(m.shape.itemIndent + 2)
                       \o <<KEY_INCREMENTAL, COLON, SP, DQ, m.new, DQ, LF>>
            Inserted(b, a, k) ==
                \E i \in 1..Len(b) :
                    /\ IsHeader(b[i])
                    /\ Cardinality({j \in 1..i : IsHeader(b[j])}) = k + 1
                    /\ a = SubSeq(b, 1, i) \o <<NewLine>> \o SubSeq(b, i + 1, Len(b))
            Reparsed(y0, y1, k) ==
                /\ ~y1.error
                /\ Len(y1.configs) = Len(y0.configs)
                /\ \A j \in 1..Len(y0.configs) :
                       y1.configs[j] = IF j = k + 1
                                       THEN [y0.configs[j] EXCEPT !.incremental = m.new]
                                       ELSE y0.configs[j]
        IN /\ Inserted(SplitLines(m.before), SplitLines(cfgFile), MatchedEntry)
           /\ Reparsed(FromYaml(m.before), FromYaml(cfgFile), MatchedEntry)

\* ------------------------------------------------------------------------
\* Part C.3  the actions of a program run
\* ------------------------------------------------------------------------
Max(a, b) == IF a >= b THEN a ELSE b

\* the document the runs work on: two variants, each with its own
\* incremental line
RunShape ==
    [entries |-> <<[product |-> "", hasInc |-> TRUE], [product |-> "P2", hasInc |-> TRUE]>>,
     rot |-> 0, cmt |-> TRUE, crlf |-> FALSE, finalNL |-> TRUE, itemIndent |-> 2,
     topInc |-> TRUE]

\* processed_fingerprints.txt as earlier runs may have left it
InitialFpFiles == {<<>>, F8 \o <<LF>>}

NoMutator ==
    [shape |-> RunShape, cfg |-> [variant_index |-> 0, product |-> TOP_PRODUCT],
     new |-> "", calls |-> 0, io |-> "ok", ret |-> FALSE, wrote |-> FALSE,
     before |-> <<>>, ret1 |-> FALSE, io1 |-> "ok"]

Init ==
    /\ fpFile \in InitialFpFiles
    /\ cfgFile = DocOf(RunShape)
    /\ m = NoMutator
    /\ RecIdle

FreshInv == [NoInv EXCEPT !.fpFile0 = fpFile, !.cfgFile0 = cfgFile]

\* create_github_release(config_name, data): gh is "fail" (gh is missing or
\* gh release create fails) or "ok"
GhOutcomes == {"fail", "ok"}

ReleaseCreated(title, gh) == gh = "ok" /\ title \notin releases

CreateGithubRelease(fp, gh) ==
    /\ releases' = IF ReleaseCreated(TitleOf(fp), gh) THEN releases \cup {TitleOf(fp)}
                   ELSE releases
    /\ hist' = [hist EXCEPT !.relCreated[fp] =
                    IF ReleaseCreated(TitleOf(fp), gh) THEN @ + 1 ELSE @]
    /\ inv' = [inv EXCEPT !.released = TRUE]

\* main / process_config up to the first call of process_config_variant,
\* whose Telegram setup (the args.skip_telegram it may set) is included.
\* a is the parsed command line, tgEnv whether bot_token, chat_id and
\* telegraph_token are all set, y what Config.from_yaml gave after the test
\* and the assignment of --incremental.
StartRunLoaded(a, tgEnv, y) ==
    LET skip == a.skip_telegram \/ (~a.register_fingerprint /\ ~tgEnv)
    IN /\ runs' = runs + 1
       /\ hist' = [hist EXCEPT
                      !.forceUsed = @ \/ a.force_notify \/ a.force_release,
                      !.results = IF y.error
                                  THEN <<[path |-> hist.path, variant |-> 0, result |-> 1]>>
                                  ELSE <<>>,
                      !.aborted = FALSE]
       /\ UNCHANGED <<fpFile, cfgFile, m, releases>>
       /\ loc' = NoLoc
       /\ IF y.error
          THEN /\ exit_code' = 1
               /\ pc' = "idle"
               /\ args' = NoArgs
               /\ configs' = <<>>
               /\ cur' = 0
               /\ tg' = FALSE
               /\ inv' = NoInv
          ELSE /\ exit_code' = 0
               /\ pc' = "check"
               /\ args' = [a EXCEPT !.skip_telegram = skip]
               /\ configs' = y.configs
               /\ cur' = 1
               /\ tg' = (~skip /\ ~a.register_fingerprint)
               /\ inv' = FreshInv

\* process_config with --incremental: refused unless the file defines one
\* variant, else cfg.incremental = args.incremental
StartRun(a, tgEnv, y) ==
    StartRunLoaded(a, tgEnv,
        IF a.incremental = "" \/ y.error THEN y
        ELSE IF Len(y.configs) # 1 THEN [y EXCEPT !.error = TRUE]
        ELSE [y EXCEPT !.configs[1].incremental = a.incremental])

\* one program run with any command line
MainStart ==
    /\ pc = "idle"
    /\ runs = 0
    /\ LET y == FromYaml(cfgFile)
       IN \E a \in ArgSets : \E tgEnv \in BOOLEAN : StartRun(a, tgEnv, y)

\* the command lines without --force-notify and --force-release
UnforcedArgSets == {a \in ArgSets : ~a.force_notify /\ ~a.force_release /\ ~a.debug}

\* one more program run of a sequence of unforced runs
MainStartUnforced ==
    /\ pc = "idle"
    /\ runs < MaxRuns
    /\ LET y == FromYaml(cfgFile)
       IN \E a \in UnforcedArgSets : \E tgEnv \in BOOLEAN : StartRun(a, tgEnv, y)

\* what the check-in comes to: requests.post raises ("transport_error"), the
\* response fails raise_for_status or ParseFromString ("decode_error"), or
\* _parse goes through the settings of the response and finds an update url,
\* an update_title, an update_size, or not
CheckOutcomes ==
    [kind : {"transport_error", "decode_error"}, url : {FALSE}, title : {FALSE},
     size : {FALSE}]
    \cup [kind : {"response"}, url : BOOLEAN, title : BOOLEAN, size : BOOLEAN]

\* has_update of UpdateChecker.check: info['found'], set together with the url
Found(o) == o.kind = "response" /\ o.url

\* PcvCheck with an update that lacks its title or size taken as no update
PcvCheck_MissingInfoIsBenign ==
    /\ pc = "check"
    /\ \E o \in CheckOutcomes :
       \E artifactOk \in (IF args.debug /\ o.kind = "decode_error" THEN BOOLEAN ELSE {TRUE}) :
        IF artifactOk
        THEN /\ inv' = [inv EXCEPT !.debugWrote = args.debug /\ o.kind # "transport_error",
                                   !.check = o]
             /\ IF Found(o) /\ o.title /\ o.size THEN pc' = "meta" /\ loc' = loc
                ELSE /\ pc' = "return"
                     /\ loc' = [loc EXCEPT !.result = 0]
             /\ UNCHANGED <<cur, exit_code, hist>>
        ELSE /\ pc' = "idle"
             /\ cur' = 0
             /\ exit_code' = 1
             /\ loc' = NoLoc
             /\ inv' = NoInv
             /\ hist' = [hist EXCEPT !.aborted = TRUE, !.faulted = TRUE]
    /\ UNCHANGED <<fpFile, cfgFile, m, releases, runs, args, tg, configs>>

\* checker.check(args.debug) and the tests on its result.  With --debug the
\* except branch of check writes the raw response (there is one when the
\* failure, the failing write of the debug file included, came after
\* requests.post returned); artifactOk = FALSE is that write raising, which
\* nothing catches: the exception ends the program.
PcvCheck ==
    /\ pc = "check"
    /\ \E o \in CheckOutcomes :
       \E artifactOk \in (IF args.debug /\ o.kind = "decode_error" THEN BOOLEAN ELSE {TRUE}) :
        IF artifactOk
        THEN /\ inv' = [inv EXCEPT !.debugWrote = args.debug /\ o.kind # "transport_error",
                                   !.check = o]
             /\ IF Found(o) /\ o.title /\ o.size THEN pc' = "meta" /\ loc' = loc
                ELSE /\ pc' = "return"
                     /\ loc' = [loc EXCEPT !.result = IF Found(o) THEN 1 ELSE 0]
             /\ UNCHANGED <<cur, exit_code, hist>>
        ELSE /\ pc' = "idle"
             /\ cur' = 0
             /\ exit_code' = 1
             /\ loc' = NoLoc
             /\ inv' = NoInv
             /\ hist' = [hist EXCEPT !.aborted = TRUE, !.faulted = TRUE]
    /\ UNCHANGED <<fpFile, cfgFile, m, releases, runs, args, tg, configs>>

\* post_build_incremental of the metadata: given for F8, missing for the others
MetaIncs(fp) == IF fp = F8 THEN {"8"} ELSE {""}

\* PcvMetadata with the novelty test made against the incremental of the
\* config entry instead of the processed set
PcvMetadata_NoveltyFromConfig ==
    /\ pc = "meta"
    /\ \/ /\ pc' = "return"
          /\ loc' = [loc EXCEPT !.result = 1]
          /\ hist' = hist
       \/ \E fp \in TargetFps : \E inc \in MetaIncs(fp) :
          \E readOk \in (IF fpFile = <<>> THEN {TRUE} ELSE BOOLEAN) :
            LET target == IF inc # "" THEN inc ELSE ExtractIncrementalFromFingerprint(fp)
            IN /\ pc' = "mutate"
               /\ loc' = [loc EXCEPT
                    !.target_fp = fp,
                    !.is_new_update = (configs[cur].incremental # target),
                    !.target_incremental = target]
               /\ hist' = [hist EXCEPT !.faulted = @ \/ ~readOk]
    /\ UNCHANGED <<fpFile, cfgFile, m, releases, runs, args, tg, configs, cur, exit_code, inv>>

\* get_ota_metadata(url), load_processed_fingerprints and the novelty test
PcvMetadata ==
    /\ pc = "meta"
    /\ \/ /\ pc' = "return"
          /\ loc' = [loc EXCEPT !.result = 1]
          /\ hist' = hist
       \/ \E fp \in TargetFps : \E inc \in MetaIncs(fp) :
          \E readOk \in (IF fpFile = <<>> THEN {TRUE} ELSE BOOLEAN) :
            /\ pc' = "mutate"
            /\ loc' = [loc EXCEPT
                 !.target_fp = fp,
                 !.is_new_update = fp \notin LoadProcessedFingerprints(fpFile, readOk),
                 !.target_incremental =
                     IF inc # "" THEN inc ELSE ExtractIncrementalFromFingerprint(fp)]
            /\ hist' = [hist EXCEPT !.faulted = @ \/ ~readOk]
    /\ UNCHANGED <<fpFile, cfgFile, m, releases, runs, args, tg, configs, cur, exit_code, inv>>

\* AfterUpdate without the skip of an already processed update
AfterUpdate_NoSkip ==
    IF args.register_fingerprint THEN "register" ELSE "send"

\* where process_config_variant goes after the config update: the skip of a
\* known fingerprint, the --register-fingerprint branch or the notification
AfterUpdate ==
    IF ~loc.is_new_update /\ ~args.force_notify THEN "return"
    ELSE IF args.register_fingerprint THEN "register" ELSE "send"

\* PcvUpdateConfig without the is_new_update test of the config update
PcvUpdateConfig_IgnoresNovelty ==
    /\ pc = "mutate"
    /\ pc' = AfterUpdate
    /\ IF ~args.register_fingerprint /\ loc.target_incremental # "" /\ ~args.dry_run
       THEN \E io \in IoOutcomes :
            LET r == UpdateConfigIncremental(cfgFile,
                        [variant_index |-> configs[cur].variant_index,
                         product |-> configs[cur].product],
                        loc.target_incremental, io)
            IN /\ cfgFile' = r.file
               /\ loc' = [loc EXCEPT !.config_updated = r.ret]
               /\ configs' = IF r.ret
                             THEN [configs EXCEPT ![cur].incremental = loc.target_incremental]
                             ELSE configs
               /\ inv' = [inv EXCEPT !.cfgCalled = TRUE]
       ELSE UNCHANGED <<cfgFile, loc, configs, inv>>
    /\ UNCHANGED <<fpFile, m, releases, runs, args, tg, cur, exit_code, hist>>

\* the config update of a new fingerprint and the skip of a known one
PcvUpdateConfig ==
    /\ pc = "mutate"
    /\ pc' = AfterUpdate
    /\ IF loc.is_new_update /\ ~args.register_fingerprint
          /\ loc.target_incremental # "" /\ ~args.dry_run
       THEN \E io \in IoOutcomes :
            LET r == UpdateConfigIncremental(cfgFile,
                        [variant_index |-> configs[cur].variant_index,
                         product |-> configs[cur].product],
                        loc.target_incremental, io)
            IN /\ cfgFile' = r.file
               /\ loc' = [loc EXCEPT !.config_updated = r.ret]
               /\ configs' = IF r.ret
                             THEN [configs EXCEPT ![cur].incremental = loc.target_incremental]
                             ELSE configs
               /\ inv' = [inv EXCEPT !.cfgCalled = TRUE]
       ELSE UNCHANGED <<cfgFile, loc, configs, inv>>
    /\ UNCHANGED <<fpFile, m, releases, runs, args, tg, cur, exit_code, hist>>

\* how much of "fingerprint\n" a failing write leaves behind
SaveCuts(fp) == {Len(fp)}

\* PcvRegister saving the fingerprint in a dry run too
PcvRegister_IgnoresDryRun ==
    /\ pc = "register"
    /\ pc' = "return"
    /\ IF loc.is_new_update
       THEN \E io \in SaveOutcomes : \E cut \in SaveCuts(loc.target_fp) :
            /\ fpFile' = SaveProcessedFingerprint(fpFile, loc.target_fp, io, cut)
            /\ loc' = [loc EXCEPT !.fingerprint_saved = TRUE, !.result = 0]
            /\ inv' = [inv EXCEPT !.saved = TRUE]
            /\ hist' = [hist EXCEPT !.flagRegistered = @ \cup {loc.target_fp},
                                    !.faulted = @ \/ io # "ok"]
       ELSE /\ loc' = [loc EXCEPT !.result = 0]
            /\ inv' = [inv EXCEPT !.wouldSave = loc.is_new_update]
            /\ UNCHANGED <<fpFile, hist>>
    /\ UNCHANGED <<cfgFile, m, releases, runs, args, tg, configs, cur, exit_code>>

\* the --register-fingerprint branch
PcvRegister ==
    /\ pc = "register"
    /\ pc' = "return"
    /\ IF loc.is_new_update /\ ~args.dry_run
       THEN \E io \in SaveOutcomes : \E cut \in SaveCuts(loc.target_fp) :
            /\ fpFile' = SaveProcessedFingerprint(fpFile, loc.target_fp, io, cut)
            /\ loc' = [loc EXCEPT !.fingerprint_saved = TRUE, !.result = 0]
            /\ inv' = [inv EXCEPT !.saved = TRUE]
            /\ hist' = [hist EXCEPT !.flagRegistered = @ \cup {loc.target_fp},
                                    !.faulted = @ \/ io # "ok"]
       ELSE /\ loc' = [loc EXCEPT !.result = 0]
            /\ inv' = [inv EXCEPT !.wouldSave = loc.is_new_update]
            /\ UNCHANGED <<fpFile, hist>>
    /\ UNCHANGED <<cfgFile, m, releases, runs, args, tg, configs, cur, exit_code>>

\* PcvSend without the "return 1" of a failed send: the run goes on to save
PcvSend_FailedSendGoesOn ==
    /\ pc = "send"
    /\ IF ~args.skip_telegram /\ tg /\ ~args.dry_run
       THEN \E ok \in BOOLEAN :
            /\ inv' = [inv EXCEPT !.sent = IF ok THEN "ok" ELSE "fail"]
            /\ hist' = [hist EXCEPT
                 !.sendsOk[loc.target_fp] = IF ok THEN @ + 1 ELSE @,
                 !.failedPending = IF ok THEN @ \ {loc.target_fp}
                                   ELSE IF loc.is_new_update THEN @ \cup {loc.target_fp}
                                   ELSE @]
            /\ pc' = IF loc.is_new_update THEN "save" ELSE "force_release"
            /\ loc' = loc
       ELSE /\ pc' = "force_release"
            /\ inv' = [inv EXCEPT !.wouldSave =
                          ~args.skip_telegram /\ tg /\ args.dry_run /\ loc.is_new_update]
            /\ UNCHANGED <<hist, loc>>
    /\ UNCHANGED <<fpFile, cfgFile, m, releases, runs, args, tg, configs, cur, exit_code>>

\* PcvSend without the log lines of a dry run
PcvSend_SilentDryRun ==
    /\ pc = "send"
    /\ IF ~args.skip_telegram /\ tg /\ ~args.dry_run
       THEN \E ok \in BOOLEAN :
            /\ inv' = [inv EXCEPT !.sent = IF ok THEN "ok" ELSE "fail"]
            /\ hist' = [hist EXCEPT
                 !.sendsOk[loc.target_fp] = IF ok THEN @ + 1 ELSE @,
                 !.failedPending = IF ok THEN @ \ {loc.target_fp}
                                   ELSE IF loc.is_new_update THEN @ \cup {loc.target_fp}
                                   ELSE @]
            /\ pc' = IF ~ok THEN "return"
                     ELSE IF loc.is_new_update THEN "save" ELSE "force_release"
            /\ loc' = [loc EXCEPT !.result = IF ok THEN @ ELSE 1]
       ELSE /\ pc' = "force_release"
            /\ UNCHANGED <<inv, hist, loc>>
    /\ UNCHANGED <<fpFile, cfgFile, m, releases, runs, args, tg, configs, cur, exit_code>>

\* the notification: tg.send(...) unless Telegram is off or the run is dry;
\* the dry run logs what it would send and, for a new update, would save
PcvSend ==
    /\ pc = "send"
    /\ IF ~args.skip_telegram /\ tg /\ ~args.dry_run
       THEN \E ok \in BOOLEAN :
            /\ inv' = [inv EXCEPT !.sent = IF ok THEN "ok" ELSE "fail"]
            /\ hist' = [hist EXCEPT
                 !.sendsOk[loc.target_fp] = IF ok THEN @ + 1 ELSE @,
                 !.failedPending = IF ok THEN @ \ {loc.target_fp}
                                   ELSE IF loc.is_new_update THEN @ \cup {loc.target_fp}
                                   ELSE @]
            /\ pc' = IF ~ok THEN "return"
                     ELSE IF loc.is_new_update THEN "save" ELSE "force_release"
            /\ loc' = [loc EXCEPT !.result = IF ok THEN @ ELSE 1]
       ELSE /\ pc' = "force_release"
            /\ inv' = [inv EXCEPT !.wouldSave =
                          ~args.skip_telegram /\ tg /\ args.dry_run /\ loc.is_new_update]
            /\ UNCHANGED <<hist, loc>>
    /\ UNCHANGED <<fpFile, cfgFile, m, releases, runs, args, tg, configs, cur, exit_code>>

\* save_processed_fingerprint after a successful send
PcvSave ==
    /\ pc = "save"
    /\ pc' = "release"
    /\ \E io \in SaveOutcomes : \E cut \in SaveCuts(loc.target_fp) :
        /\ fpFile' = SaveProcessedFingerprint(fpFile, loc.target_fp, io, cut)
        /\ hist' = [hist EXCEPT !.faulted = @ \/ io # "ok"]
    /\ loc' = [loc EXCEPT !.fingerprint_saved = TRUE]
    /\ inv' = [inv EXCEPT !.saved = TRUE]
    /\ UNCHANGED <<cfgFile, m, releases, runs, args, tg, configs, cur, exit_code>>

\* create_github_release for the new update
PcvRelease ==
    /\ pc = "release"
    /\ pc' = "force_release"
    /\ \E gh \in GhOutcomes : CreateGithubRelease(loc.target_fp, gh)
    /\ UNCHANGED <<fpFile, cfgFile, m, runs, args, tg, configs, cur, exit_code, loc>>

\* PcvForceRelease without the test of args.force_release
PcvForceRelease_Unconditional ==
    /\ pc = "force_release"
    /\ pc' = "commit"
    /\ IF ~args.dry_run
       THEN \E gh \in GhOutcomes : CreateGithubRelease(loc.target_fp, gh)
       ELSE UNCHANGED <<releases, hist, inv>>
    /\ UNCHANGED <<fpFile, cfgFile, m, runs, args, tg, configs, cur, exit_code, loc>>

\* the --force-release block
PcvForceRelease ==
    /\ pc = "force_release"
    /\ pc' = "commit"
    /\ IF args.force_release /\ ~args.dry_run
       THEN \E gh \in GhOutcomes : CreateGithubRelease(loc.target_fp, gh)
       ELSE UNCHANGED <<releases, hist, inv>>
    /\ UNCHANGED <<fpFile, cfgFile, m, runs, args, tg, configs, cur, exit_code, loc>>

\* commit_incremental_update and the final return 0
PcvCommit ==
    /\ pc = "commit"
    /\ pc' = "return"
    /\ inv' = [inv EXCEPT !.committed =
                  loc.is_new_update /\ ~args.dry_run /\ loc.config_updated
                  /\ loc.target_incremental # ""]
    /\ loc' = [loc EXCEPT !.result = 0]
    /\ UNCHANGED <<fpFile, cfgFile, m, releases, runs, args, tg, configs, cur, exit_code, hist>>

\* PcvReturn keeping the result of the last variant instead of the maximum
PcvReturn_LastResultWins ==
    /\ pc = "return"
    /\ exit_code' = loc.result
    /\ loc' = NoLoc
    /\ hist' = [hist EXCEPT !.results =
                    Append(@, [path |-> hist.path, variant |-> cur, result |-> loc.result])]
    /\ IF cur < Len(configs)
       THEN /\ cur' = cur + 1
            /\ pc' = "check"
            /\ inv' = FreshInv
       ELSE /\ cur' = 0
            /\ pc' = "idle"
            /\ inv' = NoInv
    /\ UNCHANGED <<fpFile, cfgFile, m, releases, runs, args, tg, configs>>

\* PcvReturn taking up the same variant again instead of the next one
PcvReturn_SameVariantAgain ==
    /\ pc = "return"
    /\ exit_code' = Max(exit_code, loc.result)
    /\ loc' = NoLoc
    /\ hist' = [hist EXCEPT !.results =
                    Append(@, [path |-> hist.path, variant |-> cur, result |-> loc.result])]
    /\ IF cur < Len(configs)
       THEN /\ cur' = cur
            /\ pc' = "check"
            /\ inv' = FreshInv
       ELSE /\ cur' = 0
            /\ pc' = "idle"
            /\ inv' = NoInv
    /\ UNCHANGED <<fpFile, cfgFile, m, releases, runs, args, tg, configs>>

\* process_config takes the result and goes on to the next variant
PcvReturn ==
    /\ pc = "return"
    /\ exit_code' = Max(exit_code, loc.result)
    /\ loc' = NoLoc
    /\ hist' = [hist EXCEPT !.results =
                    Append(@, [path |-> hist.path, variant |-> cur, result |-> loc.result])]
    /\ IF cur < Len(configs)
       THEN /\ cur' = cur + 1
            /\ pc' = "check"
            /\ inv' = FreshInv
       ELSE /\ cur' = 0
            /\ pc' = "idle"
            /\ inv' = NoInv
    /\ UNCHANGED <<fpFile, cfgFile, m, releases, runs, args, tg, configs>>

\* the process is killed in the middle of a run
Crash ==
    /\ pc \notin {"idle", "return"}
    /\ pc' = "idle"
    /\ cur' = 0
    /\ loc' = NoLoc
    /\ inv' = NoInv
    /\ hist' = [hist EXCEPT !.faulted = TRUE]
    /\ UNCHANGED <<fpFile, cfgFile, m, releases, runs, args, tg, configs, exit_code>>

Next ==
    \/ MainStart
    \/ PcvCheck
    \/ PcvMetadata
    \/ PcvUpdateConfig
    \/ PcvRegister
    \/ PcvSend
    \/ PcvSave
    \/ PcvRelease
    \/ PcvForceRelease
    \/ PcvCommit
    \/ PcvReturn

Spec == Init /\ [][Next]_vars

\* a sequence of unforced runs over a document with one variant, starting
\* without a processed-fingerprints file; a run may be killed at any step
SoloShape ==
    [entries |-> <<[product |-> "", hasInc |-> TRUE]>>,
     rot |-> 0, cmt |-> TRUE, crlf |-> FALSE, finalNL |-> TRUE, itemIndent |-> 2,
     topInc |-> TRUE]

InitRuns ==
    /\ fpFile = <<>>
    /\ cfgFile = DocOf(SoloShape)
    /\ m = NoMutator
    /\ RecIdle

NextRuns ==
    \/ MainStartUnforced
    \/ PcvCheck
    \/ PcvMetadata
    \/ PcvUpdateConfig
    \/ PcvRegister
    \/ PcvSend
    \/ PcvSave
    \/ PcvRelease
    \/ PcvForceRelease
    \/ PcvCommit
    \/ PcvReturn
    \/ Crash

SpecRuns == InitRuns /\ [][NextRuns]_vars

\* ------------------------------------------------------------------------
\* save_processed_fingerprint called over and over on one file (SpecStore)
\* ------------------------------------------------------------------------
MaxSaves == 3

\* a failing write stops after the first atom or just before the newline
StoreCuts(fp) == {1, Len(fp)}

InitStore ==
    /\ fpFile = <<>>
    /\ cfgFile = <<>>
    /\ m = NoMutator
    /\ RecIdle

\* one call save_processed_fingerprint(file_path, fingerprint)
SaveCall ==
    /\ m.calls < MaxSaves
    /\ \E fp \in TargetFps : \E io \in SaveOutcomes : \E cut \in StoreCuts(fp) :
         /\ fpFile' = SaveProcessedFingerprint(fpFile, fp, io, cut)
         /\ m' = [m EXCEPT !.calls = @ + 1, !.io = io, !.before = fpFile]
    /\ UNCHANGED <<cfgFile, releases, runs, args, tg, pc, configs, cur, exit_code,
                   loc, inv, hist>>

NextStore == SaveCall

SpecStore == InitStore /\ [][NextStore]_vars

\* C10: the content of the processed-fingerprints file before a call of
\* save_processed_fingerprint, successful or failing, is a prefix of the
\* content after it.
C10_AppendOnly == m.calls > 0 => StartsWith(fpFile, m.before)

\* a failing save has appended part of a line to a file that held an entry
C10_Witness ==
    /\ m.calls = 2
    /\ m.io = "partial"
    /\ m.before # <<>>
    /\ fpFile # m.before
    /\ StartsWith(fpFile, m.before)

\* ------------------------------------------------------------------------
\* Properties of one program run (Spec)
\* ------------------------------------------------------------------------
\* the invocation of process_config_variant has classified its fingerprint
Classified == pc \notin {"idle", "check", "meta"} /\ loc.target_fp # <<>>

\* what the invocation has left alone
FpFileUntouched == fpFile = inv.fpFile0 /\ ~inv.saved

ConfigUntouched == cfgFile = inv.cfgFile0 /\ ~inv.cfgCalled

\* C1: without --register-fingerprint the processed-fingerprints file is
\* written only after tg.send returned True in the same invocation, and after
\* a send that returned False the file is as it was, no release and no commit
\* were made and the invocation returns 1.
C1_SaveOnlyAfterSuccessfulSend ==
    (pc # "idle" /\ ~args.register_fingerprint) =>
        /\ (~FpFileUntouched => inv.sent = "ok")
        /\ (inv.sent = "fail" =>
               /\ FpFileUntouched
               /\ ~inv.released
               /\ ~inv.committed
               /\ pc = "return"
               /\ loc.result = 1)

\* a failed send of a new update whose config document was already rewritten
C1_Witness ==
    /\ pc = "return"
    /\ ~args.register_fingerprint
    /\ inv.sent = "fail"
    /\ loc.is_new_update
    /\ cfgFile # inv.cfgFile0

\* C4: an invocation that finds its fingerprint in the processed set and runs
\* without --force-notify and --force-release writes neither file, calls
\* neither the notifier nor the release nor the commit, and returns 0; this
\* holds for every invocation of the run.
C4_KnownFingerprintIsSkipped ==
    (Classified /\ ~loc.is_new_update /\ ~args.force_notify /\ ~args.force_release) =>
        /\ pc \in {"mutate", "return"}
        /\ FpFileUntouched
        /\ ConfigUntouched
        /\ inv.sent = "none"
        /\ ~inv.released
        /\ ~inv.committed
        /\ (pc = "return" => loc.result = 0)

\* the second invocation of a run skips a known fingerprint as the first did
C4_Witness ==
    /\ pc = "return"
    /\ cur = 2
    /\ exit_code = 0
    /\ Classified
    /\ ~loc.is_new_update
    /\ ~args.force_notify /\ ~args.force_release
    /\ loc.result = 0

\* the invocation is past the notification block of a known fingerprint
\* under --force-notify
ForcedKnown == Classified /\ ~loc.is_new_update /\ args.force_notify

PastSend ==
    pc \in {"force_release", "commit"} \/ (pc = "return" /\ ~args.register_fingerprint)

\* C5 as stated: for a fingerprint found in the processed set, a run with
\* --force-notify dispatches the notification and neither appends to the
\* processed-fingerprints file nor calls update_config_incremental nor
\* commits.
C5_ForcedNotifyAlwaysDispatches ==
    ForcedKnown =>
        /\ FpFileUntouched
        /\ ConfigUntouched
        /\ ~inv.committed
        /\ (pc \in {"force_release", "commit", "return"} => inv.sent # "none")

\* C5 amended: for a fingerprint found in the processed set, a run with
\* --force-notify neither appends to the processed-fingerprints file nor
\* calls update_config_incremental nor commits, whatever the dispatch
\* outcome; it dispatches the notification when Telegram is enabled and
\* neither --dry-run nor --register-fingerprint is given.
C5_ForcedNotifyLeavesStateAlone ==
    ForcedKnown =>
        /\ FpFileUntouched
        /\ ConfigUntouched
        /\ ~inv.committed
        /\ (PastSend /\ tg /\ ~args.dry_run => inv.sent # "none")

\* a forced notification of a known fingerprint went out and the run is at
\* the commit test
C5_Witness ==
    /\ ForcedKnown
    /\ pc = "commit"
    /\ inv.sent = "ok"

\* C6: under --dry-run, whatever the other flags and the outcomes, an
\* invocation writes neither the processed-fingerprints file nor the config
\* document nor a debug artifact, sends no notification (and so creates no
\* paste page), creates no release and makes no commit.
C6_DryRunHasNoSideEffects ==
    (pc # "idle" /\ args.dry_run) =>
        /\ FpFileUntouched
        /\ ConfigUntouched
        /\ ~inv.debugWrote
        /\ inv.sent = "none"
        /\ ~inv.released
        /\ ~inv.committed

\* the invocation has written no state, mutated no config, sent no
\* notification, created no release and made no commit
NoSideEffects ==
    /\ FpFileUntouched
    /\ ConfigUntouched
    /\ inv.sent = "none"
    /\ ~inv.released
    /\ ~inv.committed

\* get_ota_metadata returned nothing or no fingerprint for a complete update
MetadataFailed ==
    /\ pc = "return"
    /\ Found(inv.check) /\ inv.check.title /\ inv.check.size
    /\ loc.target_fp = <<>>

\* C16 as stated: when the response names an update (a url, a title or a
\* size) and one of the three is missing, or the metadata give no
\* fingerprint, process_config_variant returns 1 without any side effect.
C16_UnverifiableUpdateReturnsOne ==
    (pc = "return" /\ inv.check.kind = "response"
     /\ (inv.check.url \/ inv.check.title \/ inv.check.size)
     /\ (~(inv.check.url /\ inv.check.title /\ inv.check.size) \/ MetadataFailed)) =>
        loc.result = 1 /\ NoSideEffects

\* C16 amended: when the response holds an update url and its title or size
\* is missing, or the metadata give no fingerprint, process_config_variant
\* returns 1 without any side effect; a response without an update url is
\* "no update" and returns 0, whatever else it holds.
C16_UnverifiableUpdateFails ==
    /\ (pc = "return" /\ Found(inv.check)
        /\ (~(inv.check.title /\ inv.check.size) \/ MetadataFailed)) =>
           loc.result = 1 /\ NoSideEffects
    /\ (pc = "return" /\ inv.check.kind = "response" /\ ~inv.check.url) =>
           loc.result = 0 /\ NoSideEffects

\* the metadata of a complete update gave no fingerprint, in a run that
\* would have notified
C16_Witness ==
    /\ MetadataFailed
    /\ loc.result = 1
    /\ tg /\ ~args.dry_run /\ ~args.register_fingerprint

\* C17: a transport or decode error of the check-in never leaves
\* UpdateChecker.check as an exception, with or without --debug; the
\* invocation ends with result 0 and without any side effect.
C17_CheckErrorIsBenign ==
    /\ ~hist.aborted
    /\ (pc = "return" /\ inv.check.kind \in {"transport_error", "decode_error"}) =>
           loc.result = 0 /\ NoSideEffects

C19_OverrideSkipsConfigMutation ==
    (pc # "idle" /\ args.incremental # "") =>
        /\ pc = "check" => configs[cur].incremental = args.incremental
        /\ ConfigUntouched

\* C20: with --force-release, and neither --dry-run nor
\* --register-fingerprint, an invocation that detected and verified an update
\* and had no send fail has invoked create_github_release when it returns:
\* without Telegram, for a known fingerprint, with or without --force-notify.
C20_ForceReleaseAlwaysReleases ==
    (/\ pc = "return"
     /\ args.force_release /\ ~args.dry_run /\ ~args.register_fingerprint
     /\ loc.target_fp # <<>>
     /\ inv.sent # "fail") => inv.released

\* C23: with --register-fingerprint an invocation never sends, never
\* rewrites the config document, never creates a release and never commits.
\* When it returns for a verified update the result is 0, and
\* save_processed_fingerprint was called exactly when the fingerprint was new
\* and --dry-run was not given: without the call the file is as it was, with
\* it (and no I/O failure) the file is the old one plus the fingerprint line.
C23_RegisterOnlyRegisters ==
    (args.register_fingerprint /\ pc # "idle") =>
        /\ inv.sent = "none" /\ ConfigUntouched /\ ~inv.released /\ ~inv.committed
        /\ (pc = "return" /\ loc.target_fp # <<>>) =>
              /\ loc.result = 0
              /\ inv.saved <=> (loc.is_new_update /\ ~args.dry_run)
              /\ ~inv.saved => fpFile = inv.fpFile0
              /\ (inv.saved /\ ~hist.faulted) =>
                     fpFile = inv.fpFile0 \o loc.target_fp \o <<LF>>

C23_Witness ==
    /\ pc = "return" /\ args.register_fingerprint
    /\ loc.is_new_update /\ inv.saved
    /\ fpFile = inv.fpFile0 \o loc.target_fp \o <<LF>>
    /\ loc.result = 0

\* C24 (as stated): a dry run that finds an update with a fingerprint not in
\* the processed set logs a "would save" line and leaves the
\* processed-fingerprints file as it was, whatever the other flags and the
\* notification configuration.
C24_DryRunAnnouncesSave ==
    (pc = "return" /\ args.dry_run /\ loc.target_fp # <<>> /\ loc.is_new_update) =>
        inv.wouldSave /\ FpFileUntouched

\* C24 (amended): such a dry run always leaves the file as it was; it logs
\* the "would save" line exactly when a run without --dry-run would go on to
\* save: under --register-fingerprint, or with Telegram enabled.
C24_DryRunAnnouncesSaveWhenItWouldSave ==
    (pc = "return" /\ args.dry_run /\ loc.target_fp # <<>> /\ loc.is_new_update) =>
        /\ FpFileUntouched
        /\ inv.wouldSave <=> (args.register_fingerprint \/ (~args.skip_telegram /\ tg))

C24_Witness ==
    /\ pc = "return" /\ args.dry_run /\ loc.is_new_update
    /\ ~args.register_fingerprint /\ tg
    /\ inv.wouldSave /\ FpFileUntouched

\* C27: the processed-fingerprints file, free of duplicates at the start,
\* never holds the same identifier on two lines, whatever the flags and the
\* fingerprints the invocations of the run resolve to.
C27_ProcessedSetHasNoDuplicates ==
    LET NoTwice(lines) ==
            \A i, j \in 1..Len(lines) :
                (i # j /\ Strip(lines[i]) # <<>>) => Strip(lines[i]) # Strip(lines[j])
    IN NoTwice(SplitLines(ReadText(fpFile)))

\* C30: an invocation whose send fails for a new update leaves the
\* processed-fingerprints file and the config document as they were before
\* it.
C30_FailedDispatchLeavesStateAlone ==
    (pc = "return" /\ inv.sent = "fail" /\ loc.is_new_update) =>
        FpFileUntouched /\ ConfigUntouched

\* ------------------------------------------------------------------------
\* Properties of a sequence of runs (SpecRuns)
\* ------------------------------------------------------------------------
\* C2: over runs made without --force-notify and --force-release, killed
\* runs included, no fingerprint gets more than one successful notification
\* and no more than one release creation.
C2_NoDuplicateDispatchOrRelease ==
    ~hist.forceUsed =>
        \A fp \in TargetFps : hist.sendsOk[fp] <= 1 /\ hist.relCreated[fp] <= 1

\* the fingerprints the processed-fingerprints file holds
Registered == LoadProcessedFingerprints(fpFile, TRUE)

\* a dispatch for fp as a new update has failed and none has succeeded
AwaitsDelivery(fp) == fp \in hist.failedPending /\ hist.sendsOk[fp] = 0

Workers == {1, 2}

FreshWorker(i, fp) ==
    [pc |-> "load",
     cfg |-> [variant_index |-> i - 1,
              product |-> FromYaml(DocOf(RunShape)).configs[i].product],
     fp |-> fp, inc |-> ExtractIncrementalFromFingerprint(fp),
     is_new |-> FALSE, new_text |-> <<>>, ret |-> FALSE, called |-> FALSE, saved |-> FALSE]

InitShared ==
    /\ fpFile \in InitialFpFiles
    /\ cfgFile = DocOf(RunShape)
    /\ RecIdle
    /\ \E fps \in [Workers -> {F8, F9}] :
         m = [w |-> [i \in Workers |-> FreshWorker(i, fps[i])]]

\* processed_fingerprints = load_processed_fingerprints(...) and
\* is_new_update; a known fingerprint ends the reconciliation
ParLoad(i) ==
    /\ m.w[i].pc = "load"
    /\ \E new \in {m.w[i].fp \notin LoadProcessedFingerprints(fpFile, TRUE)} :
         m' = [m EXCEPT !.w[i].is_new = new,
                        !.w[i].pc = IF new THEN "read" ELSE "done"]
    /\ UNCHANGED <<fpFile, cfgFile, releases, runs, args, tg, pc, configs, cur, exit_code,
                   loc, inv, hist>>

\* update_config_incremental from read_text up to the comparison of
\* new_text with raw_text: the text to write is computed from what was read
ParRead(i) ==
    /\ m.w[i].pc = "read"
    /\ \E r \in {UpdateConfigIncremental(cfgFile, m.w[i].cfg, m.w[i].inc, "ok")} :
         m' = [m EXCEPT !.w[i].new_text = r.file, !.w[i].ret = r.ret,
                        !.w[i].called = TRUE,
                        !.w[i].pc = IF r.wrote THEN "write" ELSE "open"]
    /\ UNCHANGED <<fpFile, cfgFile, releases, runs, args, tg, pc, configs, cur, exit_code,
                   loc, inv, hist>>

\* config_path.write_text(new_text)
ParWrite(i) ==
    /\ m.w[i].pc = "write"
    /\ cfgFile' = m.w[i].new_text
    /\ m' = [m EXCEPT !.w[i].pc = "open"]
    /\ UNCHANGED <<fpFile, releases, runs, args, tg, pc, configs, cur, exit_code,
                   loc, inv, hist>>

\* save_processed_fingerprint: path.open("a")
ParOpen(i) ==
    /\ m.w[i].pc = "open"
    /\ m' = [m EXCEPT !.w[i].pc = "append"]
    /\ UNCHANGED <<fpFile, cfgFile, releases, runs, args, tg, pc, configs, cur, exit_code,
                   loc, inv, hist>>

\* save_processed_fingerprint: the write, flushed when the handle closes
ParAppend(i) ==
    /\ m.w[i].pc = "append"
    /\ fpFile' = SaveProcessedFingerprint(fpFile, m.w[i].fp, "ok", 0)
    /\ m' = [m EXCEPT !.w[i].pc = "done", !.w[i].saved = TRUE]
    /\ UNCHANGED <<cfgFile, releases, runs, args, tg, pc, configs, cur, exit_code,
                   loc, inv, hist>>

NextShared ==
    \E i \in Workers :
       \/ ParLoad(i)
       \/ ParRead(i)
       \/ ParWrite(i)
       \/ ParOpen(i)
       \/ ParAppend(i)

SpecShared == InitShared /\ [][NextShared]_vars

\* ------------------------------------------------------------------------
\* Properties of concurrent reconciliations (SpecShared)
\* ------------------------------------------------------------------------
AllDone == \A i \in Workers : m.w[i].pc = "done"

\* the lines of the processed-fingerprints file that hold fp
LinesOf(fp) ==
    LET lines == SplitLines(fpFile)
    IN {j \in 1..Len(lines) : lines[j] = fp \o <<LF>>}

\* C11: the saves of concurrent reconciliations on one file are serialized
\* (no two are between open and close at the same time), and once all
\* reconciliations are done every identifier that was saved is exactly one
\* intact line of the file.
C11_ConcurrentSavesAreSerialized ==
    /\ \A i, j \in Workers : (m.w[i].pc = "append" /\ m.w[j].pc = "append") => i = j
    /\ AllDone => \A i \in Workers : m.w[i].saved => Cardinality(LinesOf(m.w[i].fp)) = 1

\* C12: when the reconciliations of two variants of one document have both
\* run update_config_incremental with success, the document holds the new
\* incremental of both variants.
C12_NoLostConfigUpdate ==
    AllDone =>
        \A i \in Workers :
            (m.w[i].called /\ m.w[i].ret) =>
                FromYaml(cfgFile).configs[i].incremental = m.w[i].inc

\* ------------------------------------------------------------------------
\* main over a directory of config files (SpecMain).  m holds main's locals:
\*   found      the config files as the two globs yield them, each with the
\*              sort key of its name and its bytes
\*   paths      config_paths, idx the position of the one in work
\*   exit_code  main's exit_code
\*   status     "start", "running", or "exited" after main returned
\* cfgFile is the document at the config path in work.
\* ------------------------------------------------------------------------
MaxPaths == 2

MaxTargets == 2

\* a document from_yaml rejects: no incremental anywhere
BadShape ==
    [entries |-> <<>>, rot |-> 0, cmt |-> TRUE, crlf |-> FALSE, finalNL |-> TRUE,
     itemIndent |-> 2, topInc |-> FALSE]

MainShapes == {RunShape, SoloShape, BadShape}

\* the variants of a list of documents, all files together
RECURSIVE TargetCount(_)
TargetCount(shapes) ==
    IF shapes = <<>> THEN 0 ELSE Len(Head(shapes).entries) + TargetCount(Tail(shapes))

\* what the globs can yield: up to MaxPaths files with distinct names in any
\* order, holding up to MaxTargets variants
FoundLists ==
    UNION {{[i \in 1..n |-> [key |-> keys[i], doc |-> DocOf(shapes[i])]] :
               keys \in {k \in [1..n -> 1..n] : \A a, b \in 1..n : k[a] = k[b] => a = b},
               shapes \in {sh \in [1..n -> MainShapes] : TargetCount(sh) <= MaxTargets}} :
           n \in 0..MaxPaths}

\* sorted(..., key=lambda p: p.name.lower())
SortByName(found) ==
    [i \in 1..Len(found) |->
        found[CHOOSE j \in 1..Len(found) :
                 Cardinality({k \in 1..Len(found) : found[k].key < found[j].key}) = i - 1]]

MainArgSets ==
    {NoArgs, [NoArgs EXCEPT !.debug = TRUE], [NoArgs EXCEPT !.register_fingerprint = TRUE]}

InitMain ==
    /\ fpFile = <<>>
    /\ cfgFile = <<>>
    /\ RecIdle
    /\ \E found \in FoundLists :
         m = [found |-> found, paths |-> <<>>, idx |-> 0, exit_code |-> 0,
              status |-> "start"]

\* main down to its loop: the command line, the Telegram environment that
\* process_config_variant looks at, the sorted config paths, and the
\* return 1 of a directory without config files
MainBegin ==
    /\ pc = "idle"
    /\ m.status = "start"
    /\ \E a \in MainArgSets : \E tgEnv \in BOOLEAN :
         /\ args' = [a EXCEPT !.skip_telegram = @ \/ (~a.register_fingerprint /\ ~tgEnv)]
         /\ tg' = (~a.skip_telegram /\ ~a.register_fingerprint /\ tgEnv)
    /\ runs' = runs + 1
    /\ m' = [m EXCEPT !.paths = SortByName(m.found),
                      !.exit_code = IF m.found = <<>> THEN 1 ELSE 0,
                      !.status = IF m.found = <<>> THEN "exited" ELSE "running"]
    /\ UNCHANGED <<fpFile, cfgFile, releases, pc, configs, cur, exit_code, loc, inv, hist>>

\* one turn of main's loop: take the result of the process_config that has
\* returned, then call process_config on the next path (from_yaml and the
\* first process_config_variant) or return exit_code
MainLoop ==
    /\ pc = "idle"
    /\ m.status = "running"
    /\ ~hist.aborted
    /\ \E ec \in {IF m.idx = 0 THEN 0 ELSE Max(m.exit_code, exit_code)} :
       \E paths \in {IF m.idx = 0 THEN m.paths ELSE [m.paths EXCEPT ![m.idx].doc = cfgFile]} :
         IF m.idx < Len(m.paths)
         THEN \E y \in {FromYaml(paths[m.idx + 1].doc)} :
              /\ m' = [m EXCEPT !.paths = paths, !.idx = @ + 1, !.exit_code = ec]
              /\ cfgFile' = paths[m.idx + 1].doc
              /\ hist' = [hist EXCEPT
                     !.path = m.idx + 1,
                     !.results = IF y.error
                                 THEN Append(@, [path |-> m.idx + 1, variant |-> 0,
                                                 result |-> 1])
                                 ELSE @]
              /\ exit_code' = IF y.error THEN 1 ELSE 0
              /\ pc' = IF y.error THEN "idle" ELSE "check"
              /\ configs' = y.configs
              /\ cur' = IF y.error THEN 0 ELSE 1
              /\ inv' = IF y.error THEN NoInv
                        ELSE [NoInv EXCEPT !.fpFile0 = fpFile,
                                           !.cfgFile0 = paths[m.idx + 1].doc]
              /\ loc' = NoLoc
         ELSE /\ m' = [m EXCEPT !.paths = paths, !.exit_code = ec, !.status = "exited"]
              /\ UNCHANGED <<cfgFile, hist, exit_code, pc, configs, cur, inv, loc>>
    /\ UNCHANGED <<fpFile, releases, runs, args, tg>>

NextMain ==
    \/ MainBegin
    \/ MainLoop
    \/ PcvCheck
    \/ PcvMetadata
    \/ PcvUpdateConfig
    \/ PcvRegister
    \/ PcvSend
    \/ PcvSave
    \/ PcvRelease
    \/ PcvForceRelease
    \/ PcvCommit
    \/ PcvReturn

SpecMain == InitMain /\ [][NextMain]_vars

\* ------------------------------------------------------------------------
\* Properties of main (SpecMain)
\* ------------------------------------------------------------------------
\* the process is over: main returned, or an exception went up through it
ProcessEnded == m.status = "exited" \/ hist.aborted

\* sys.exit(main()); an uncaught exception makes the interpreter exit with 1
ExitStatus == IF hist.aborted THEN 1 ELSE m.exit_code

\* max over the results of the targets that have ended, 0 without any
RECURSIVE WorstResult(_)
WorstResult(results) ==
    IF results = <<>> THEN 0
    ELSE Max(Head(results).result, WorstResult(Tail(results)))

\* target a comes before target b in the order main and process_config
\* take them up
Before(a, b) == a.path < b.path \/ (a.path = b.path /\ a.variant < b.variant)

C15_FailureNeverAbortsSiblings ==
    ProcessEnded =>
        \A k \in 1..Len(m.found) :
            \E y \in {FromYaml(SortByName(m.found)[k].doc)} :
                \A v \in (IF y.error THEN {0} ELSE 1..Len(y.configs)) :
                    \E i \in 1..Len(hist.results) :
                        hist.results[i].path = k /\ hist.results[i].variant = v

\* ------------------------------------------------------------------------
\* get_ota_metadata and its pipeline of child processes (SpecMetadata)
\* ------------------------------------------------------------------------
\* m holds the position in get_ota_metadata, the state of each child ("none":
\* not started, "running", "exited", "killed"), how the function came to its
\* return and what curl_proc.poll() saw in the finally clause.
Procs == {"curl", "bsdtar", "grep"}

InitMetadata ==
    /\ fpFile = <<>>
    /\ cfgFile = DocOf(SoloShape)
    /\ RecIdle
    /\ m = [at |-> "cmds", curl |-> "none", bsdtar |-> "none", grep |-> "none",
            how |-> "none", polled |-> "none"]

\* check_cmds(["curl", "bsdtar", "grep"]): a missing command ends the call
\* before the try statement
MdCheckCmds ==
    /\ m.at = "cmds"
    /\ \E ok \in BOOLEAN :
        m' = IF ok THEN [m EXCEPT !.at = "curl"]
             ELSE [m EXCEPT !.at = "returned", !.how = "no_cmds"]
    /\ UNCHANGED <<cfgFile, recVars>>

\* subprocess.Popen of the next stage (curl, then bsdtar, then grep): the
\* child runs, or Popen raises and the except clause is entered
MdPopen ==
    /\ m.at \in Procs
    /\ \E ok \in BOOLEAN :
        m' = IF ok
             THEN [m EXCEPT ![m.at] = "running",
                            !.at = IF m.at = "curl" THEN "bsdtar"
                                   ELSE IF m.at = "bsdtar" THEN "grep"
                                   ELSE "communicate"]
             ELSE [m EXCEPT !.at = "finally", !.how = "exception"]
    /\ UNCHANGED <<cfgFile, recVars>>

\* grep_proc.communicate(timeout=90) and the test of the content: grep has
\* ended and its output is read (lines with or without post-build among
\* them, or nothing), the 90 s pass while grep still runs, or the read raises
MdCommunicate ==
    /\ m.at = "communicate"
    /\ \E how \in (IF m.grep = "exited"
                   THEN {"result", "no_fingerprint", "empty", "exception"}
                   ELSE {"timeout", "exception"}) :
        m' = [m EXCEPT !.at = "finally", !.how = how]
    /\ UNCHANGED <<cfgFile, recVars>>

\* the finally clause up to the test: curl_proc.poll() is None when curl was
\* started and has not ended
MdFinally ==
    /\ m.at = "finally"
    /\ m' = [m EXCEPT !.polled = m.curl,
                      !.at = IF m.curl = "running" THEN "kill" ELSE "returned"]
    /\ UNCHANGED <<cfgFile, recVars>>

\* MdKill without the signal
MdKill_NoSignal ==
    /\ m.at = "kill"
    /\ m' = [m EXCEPT !.at = "returned"]
    /\ UNCHANGED <<cfgFile, recVars>>

\* curl_proc.kill() and the return; curl may have ended since the poll, the
\* signal is then not sent or its error is passed over
MdKill ==
    /\ m.at = "kill"
    /\ m' = [m EXCEPT !.at = "returned",
                      !.curl = IF m.curl = "running" THEN "killed" ELSE @]
    /\ UNCHANGED <<cfgFile, recVars>>

\* a child ends by itself: curl at the end of the transfer, on an error or
\* after 60 s; bsdtar and grep at the end of their input, on a closed output
\* or, for grep, at the fifth match
ProcExit ==
    /\ \E p \in Procs :
        /\ m[p] = "running"
        /\ m' = [m EXCEPT ![p] = "exited"]
    /\ UNCHANGED <<cfgFile, recVars>>

NextMetadata ==
    \/ MdCheckCmds
    \/ MdPopen
    \/ MdCommunicate
    \/ MdFinally
    \/ MdKill
    \/ ProcExit

SpecMetadata == InitMetadata /\ [][NextMetadata]_vars

\* C21: when get_ota_metadata has returned after curl was started, curl has
\* exited or has been sent a kill, on every exit path.
C21_FetchNeverOutlivesCall ==
    (m.at = "returned" /\ m.curl # "none") => m.curl \in {"exited", "killed"}

C21_Witness ==
    m.at = "returned" /\ m.how = "timeout" /\ m.polled = "running" /\ m.curl = "killed"

\* C22: when get_ota_metadata has returned, each child it started has
\* exited or has been killed.
C22_NoProcessOutlivesCall ==
    m.at = "returned" => \A p \in Procs : m[p] \in {"none", "exited", "killed"}

\* ------------------------------------------------------------------------
\* Pure functions of the notifier and the checker (SpecPure)
\* ------------------------------------------------------------------------
\* TgNotify._truncate_desc on descriptions of word characters ("a"), full
\* stops, spaces and newlines.  The anchor of the link text is three atoms
\* here; the function only takes the length of the link text.
MaxHead == 5

LinkText(url) ==
    IF url THEN <<".", ".", ".", SP, "<a>", "Read full changelogs", "</a>">>
    ELSE <<".", ".", ".">>

\* RFind is str.rfind as the number of characters before the last
\* occurrence (-1 without one); LastSentenceEnd is match.end() of the last
\* match of SENTENCE_BOUNDARY_RE, a full stop and the whitespace after it
\* (0 without a match)
TruncateDesc(desc, max_len, url) ==
    LET RFind(t, pat) ==
            SeqMax({-1} \cup {j - 1 : j \in {k \in 1..Len(t) :
                                              StartsWith(SubSeq(t, k, Len(t)), pat)}})
        EndOf(t, dot) == dot + LeadCount(SubSeq(t, dot + 1, Len(t)), Whitespace)
        LastOf(t, Dots) == IF Dots = {} THEN 0 ELSE EndOf(t, SeqMax(Dots))
        LastSentenceEnd(t) ==
            LastOf(t, {i \in 1..(Len(t) - 1) : t[i] = "." /\ t[i + 1] \in Whitespace})
        Cut(truncated, eff, sent, para, line, space) ==
            IF sent > 0 /\ 10 * (sent - 1) > 6 * eff THEN SubSeq(truncated, 1, sent)
            ELSE IF 10 * para > 5 * eff THEN SubSeq(truncated, 1, para)
            ELSE IF 10 * line > 7 * eff THEN SubSeq(truncated, 1, line)
            ELSE IF 10 * space > 8 * eff THEN SubSeq(truncated, 1, space)
            ELSE truncated
        Scan(truncated, eff) ==
            Cut(truncated, eff, LastSentenceEnd(truncated), RFind(truncated, <<LF, LF>>),
                RFind(truncated, <<LF>>), RFind(truncated, <<SP>>))
        Eff(link) == IF url THEN max_len - Len(link) ELSE max_len
    IN IF Len(desc) <= max_len THEN desc
       ELSE Scan(SubSeq(desc, 1, Eff(LinkText(url))), Eff(LinkText(url))) \o LinkText(url)

RECURSIVE Heads(_)
Heads(n) ==
    IF n = 0 THEN {<<>>}
    ELSE {<<c>> \o h : c \in {"a", ".", SP, LF}, h \in Heads(n - 1)}

\* the calls made: a budget that leaves MaxHead characters beside the link
\* text, and descriptions of MaxHead characters followed by nothing (within
\* the budget) or by more than the budget has room for
TruncateInputs ==
    {[fn |-> "truncate", url |-> url, desc |-> head \o tail,
      max_len |-> MaxHead + (IF url THEN Len(LinkText(TRUE)) ELSE 0),
      out |-> <<>>, called |-> FALSE] :
        url \in BOOLEAN, head \in Heads(MaxHead),
        tail \in {<<>>, <<"a", "a", "a", "a">>, <<SP, "a", "a", "a">>}}

\* UpdateChecker._parse on responses of up to MaxSettings settings.  A value
\* is a sequence of atoms: spaces, the OTA URL prefix, other text.
MaxSettings == 3

OTA_URL_PREFIX == "https://android.googleapis.com/packages/ota"

NoInfo == [found |-> FALSE, url |-> <<"None">>, title |-> <<"None">>, size |-> <<"None">>]

\* ParseSettings taking every matching setting, not only the first
RECURSIVE ParseSettings_LastMatchWins(_, _)
ParseSettings_LastMatchWins(info, settings) ==
    IF settings = <<>> THEN info
    ELSE LET Named(i, entry) ==
                 IF entry.name = "update_title" THEN [i EXCEPT !.title = Strip(entry.value)]
                 ELSE IF entry.name = "update_size" THEN [i EXCEPT !.size = entry.value]
                 ELSE i
             Url(i, entry, url) ==
                 IF (entry.name = "update_url"
                        \/ \E k \in 1..Len(entry.value) : entry.value[k] = OTA_URL_PREFIX)
                    /\ url # <<>>
                 THEN [i EXCEPT !.url = url, !.found = TRUE]
                 ELSE i
         IN ParseSettings_LastMatchWins(
                Named(Url(info, Head(settings), Strip(Head(settings).value)), Head(settings)),
                Tail(settings))

\* the loop of _parse over resp.setting, from the info built so far
RECURSIVE ParseSettings(_, _)
ParseSettings(info, settings) ==
    IF settings = <<>> THEN info
    ELSE LET Named(i, entry) ==
                 IF entry.name = "update_title" THEN [i EXCEPT !.title = Strip(entry.value)]
                 ELSE IF entry.name = "update_size" THEN [i EXCEPT !.size = entry.value]
                 ELSE i
             Url(i, entry, url) ==
                 IF ~i.found
                    /\ (entry.name = "update_url"
                        \/ \E k \in 1..Len(entry.value) : entry.value[k] = OTA_URL_PREFIX)
                    /\ url # <<>>
                 THEN [i EXCEPT !.url = url, !.found = TRUE]
                 ELSE i
         IN ParseSettings(
                Named(Url(info, Head(settings), Strip(Head(settings).value)), Head(settings)),
                Tail(settings))

\* the responses parsed
ParseInputs ==
    LET Settings == [name : {"update_url", "update_title", "update_size", "other"},
                     value : {<<>>, <<SP>>, <<SP, OTA_URL_PREFIX, "1", SP>>,
                              <<OTA_URL_PREFIX, "2">>, <<"x">>}]
    IN {[fn |-> "parse", url |-> FALSE, desc |-> settings, max_len |-> 0,
         out |-> NoInfo, called |-> FALSE] :
            settings \in UNION {[1..n -> Settings] : n \in 0..MaxSettings}}

InitPure ==
    /\ fpFile = <<>>
    /\ cfgFile = DocOf(SoloShape)
    /\ RecIdle
    /\ m \in TruncateInputs \cup ParseInputs

\* info = self._parse(resp) with resp.setting = m.desc
ParseCall ==
    /\ m.fn = "parse" /\ ~m.called
    /\ m' = [m EXCEPT !.called = TRUE, !.out = ParseSettings(NoInfo, m.desc)]
    /\ UNCHANGED <<cfgFile, recVars>>

TruncateCall ==
    /\ m.fn = "truncate" /\ ~m.called
    /\ m' = [m EXCEPT !.called = TRUE,
                      !.out = TruncateDesc(m.desc, m.max_len, m.url)]
    /\ UNCHANGED <<cfgFile, recVars>>

NextPure ==
    \/ TruncateCall
    \/ ParseCall

SpecPure == InitPure /\ [][NextPure]_vars

\* C25: for a description longer than max_len, what _truncate_desc returns,
\* link text included, is at most max_len long, and the text is not cut
\* between two word characters when the part looked at holds a word boundary.
C25_TruncationLaw ==
    (m.fn = "truncate" /\ m.called /\ Len(m.desc) > m.max_len) =>
        LET Kept(n) ==
                \/ n = 0
                \/ ~(m.desc[n] = "a" /\ m.desc[n + 1] = "a")
                \/ \A i \in 1..MaxHead : m.desc[i] \notin Whitespace
        IN /\ Len(m.out) <= m.max_len
           /\ Kept(Len(m.out) - Len(LinkText(m.url)))

\* ------------------------------------------------------------------------
\* Log and Log.capture called from two threads (SpecLog)
\* ------------------------------------------------------------------------
\* m.stream[t] is _thread_local.stream of thread t (<<>> while the
\* attribute is not set, else the buffer handed to capture), m.prev[t] the
\* prev of each capture the thread is in, outermost first (<<"None">> when
\* the attribute was not set).  A thread hands capture a buffer of its own,
\* <<t, d>> for its d-th nested capture.  m.bufs and m.console hold what was
\* printed: who printed it and how many captures deep.
MaxDepth == 2

MaxLog == 3

InitLog ==
    /\ fpFile = <<>>
    /\ cfgFile = DocOf(SoloShape)
    /\ RecIdle
    /\ m = [stream |-> [t \in Workers |-> <<>>],
            prev |-> [t \in Workers |-> <<>>],
            bufs |-> [b \in Workers \X (1..MaxDepth) |-> <<>>],
            console |-> <<>>,
            logged |-> [t \in Workers |-> 0]]

\* with Log.capture(buf): up to the yield
CaptureEnter(t) ==
    /\ Len(m.prev[t]) < MaxDepth
    /\ m' = [m EXCEPT
               !.prev[t] = Append(@, IF m.stream[t] = <<>> THEN <<"None">>
                                     ELSE m.stream[t]),
               !.stream[t] = <<t, Len(m.prev[t]) + 1>>]
    /\ UNCHANGED <<cfgFile, recVars>>

\* CaptureExit deleting the attribute whatever prev is
CaptureExit_AlwaysDetach(t) ==
    /\ Len(m.prev[t]) > 0
    /\ m' = [m EXCEPT
               !.prev[t] = SubSeq(@, 1, Len(@) - 1),
               !.stream[t] = <<>>]
    /\ UNCHANGED <<cfgFile, recVars>>

\* the finally clause of capture, reached when the with block ends or raises
CaptureExit(t) ==
    /\ Len(m.prev[t]) > 0
    /\ m' = [m EXCEPT
               !.prev[t] = SubSeq(@, 1, Len(@) - 1),
               !.stream[t] = IF m.prev[t][Len(m.prev[t])] = <<"None">> THEN <<>>
                             ELSE m.prev[t][Len(m.prev[t])]]
    /\ UNCHANGED <<cfgFile, recVars>>

\* Log.i, Log.s, Log.e, Log.w and Log.raw: print(..., file=_stream())
LogCall(t) ==
    /\ m.logged[t] < MaxLog
    /\ LET Line(depth) == [by |-> t, depth |-> depth]
       IN m' = IF m.stream[t] = <<>>
               THEN [m EXCEPT !.console = Append(@, Line(Len(m.prev[t]))),
                              !.logged[t] = @ + 1]
               ELSE [m EXCEPT !.bufs[m.stream[t]] = Append(@, Line(Len(m.prev[t]))),
                              !.logged[t] = @ + 1]
    /\ UNCHANGED <<cfgFile, recVars>>

NextLog ==
    \/ \E t \in Workers : CaptureEnter(t)
    \/ \E t \in Workers : CaptureExit(t)
    \/ \E t \in Workers : LogCall(t)

SpecLog == InitLog /\ [][NextLog]_vars

\* C26: what a thread logs inside a capture goes to the buffer of its
\* innermost capture and never to the console; a buffer holds only lines of
\* the thread that handed it to capture; and outside every capture, or back
\* in an outer one, the thread's target is what it was before the inner
\* capture was entered (the console, or the outer buffer).
C26_CaptureIsPrivate ==
    /\ \A i \in 1..Len(m.console) : m.console[i].depth = 0
    /\ \A b \in DOMAIN m.bufs : \A i \in 1..Len(m.bufs[b]) :
           m.bufs[b][i].by = b[1] /\ m.bufs[b][i].depth = b[2]
    /\ \A t \in Workers :
           m.stream[t] = IF Len(m.prev[t]) = 0 THEN <<>> ELSE <<t, Len(m.prev[t])>>

C26_Witness ==
    /\ Len(m.bufs[<<1, 1>>]) = 2 /\ Len(m.bufs[<<1, 2>>]) = 1
    /\ Len(m.bufs[<<2, 1>>]) = 1
    /\ Len(m.console) = 1 /\ m.console[1].by = 2
    /\ m.prev[1] = <<>> /\ m.stream[1] = <<>>

\* C28: the url _parse returns is the stripped value of the first setting,
\* in the order of the response, that is named update_url or holds the OTA
\* URL prefix and whose stripped value is not empty; found is True exactly
\* when there is such a setting, and then the url is not empty, whether or not
\* a title or a size came with it.
C28_FirstUrlWins ==
    (m.fn = "parse" /\ m.called) =>
        LET Matches == {i \in 1..Len(m.desc) :
                          /\ \/ m.desc[i].name = "update_url"
                             \/ \E k \in 1..Len(m.desc[i].value) :
                                    m.desc[i].value[k] = OTA_URL_PREFIX
                          /\ Strip(m.desc[i].value) # <<>>}
        IN /\ m.out.found <=> Matches # {}
           /\ Matches # {} => m.out.url = Strip(m.desc[SeqMin(Matches)].value)
           /\ Matches = {} => m.out.url = <<"None">>
           /\ m.out.found => m.out.url \notin {<<>>, <<"None">>}

C28_Witness ==
    /\ m.fn = "parse" /\ m.called
    /\ m.desc = <<[name |-> "update_url", value |-> <<SP>>],
                  [name |-> "other", value |-> <<SP, OTA_URL_PREFIX, "1", SP>>],
                  [name |-> "update_url", value |-> <<OTA_URL_PREFIX, "2">>]>>
    /\ m.out = [found |-> TRUE, url |-> <<OTA_URL_PREFIX, "1">>,
                title |-> <<"None">>, size |-> <<"None">>]

====
